---- MODULE Spec2Model ----
(***************************************************************************)
(* SageOrb: the liquidity-projection engine (backend/utils/projections.py), *)
(* the cash-flow optimizer (backend/utils/optimizer.py), the preprocessing  *)
(* of backend/utils/data_loader.py and the request handlers of              *)
(* backend/app.py, as a state machine over one request's record list.       *)
(*                                                                          *)
(* float64 values are exact rationals n/d (d > 0) extended with NaN (0/0),  *)
(* +Infinity (1/0) and -Infinity (-1/0); rounding error is not modelled.    *)
(* A standard deviation is kept as a surd a + b*sqrt(v) with rational a, b, *)
(* v, so that comparisons of values involving it are exact.                 *)
(* Calendar dates are day ordinals; day 1 is 1 January of a 365-day year.   *)
(***************************************************************************)
EXTENDS Integers, Sequences, FiniteSets, TLC

VARIABLES data, frame, result,
          self,      \* models and scalers of a long-lived AdvancedProjectionEngine
          rng,       \* the state of numpy's process-global random generator
          previous,  \* the call before the one in result
          requests,  \* the requests being served, each at its own step
          engines    \* the engine and optimizer instances the requests made

vars == <<data, frame, result, self, rng, previous, requests, engines>>

\* what a single call on a fresh engine never touches
process == <<self, rng, previous, requests, engines>>

(***************************************************************************)
(* Bounds of the model.                                                     *)
(***************************************************************************)
MaxShort == 3
MaxLen == 60
MaxHorizon == 2

(***************************************************************************)
(* float64 arithmetic.                                                      *)
(***************************************************************************)
\* a sequence held as the list of its values
List(f) == f \o <<>>

AbsInt(i) == IF i < 0 THEN -i ELSE i

RECURSIVE GCD(_, _)
GCD(a, b) == IF b = 0 THEN a ELSE GCD(b, a % b)

Sign(i) == IF i > 0 THEN 1 ELSE IF i < 0 THEN -1 ELSE 0

Rat(n, d) ==
  IF d = 0 THEN [n |-> Sign(n), d |-> 0]
  ELSE LET g == GCD(AbsInt(n), AbsInt(d))
           s == Sign(d)
       IN [n |-> s * (n \div g), d |-> s * (d \div g)]

R(i) == [n |-> i, d |-> 1]
Zero == R(0)
NaN == [n |-> 0, d |-> 0]
PosInf == [n |-> 1, d |-> 0]
NegInf == [n |-> -1, d |-> 0]

IsNaN(x) == x.d = 0 /\ x.n = 0
IsFinite(x) == x.d # 0
IsZero(x) == x.d # 0 /\ x.n = 0

Neg(x) == [n |-> -x.n, d |-> x.d]

Add(x, y) ==
  IF IsNaN(x) \/ IsNaN(y) THEN NaN
  ELSE IF x.d = 0 /\ y.d = 0 THEN (IF x.n = y.n THEN x ELSE NaN)
  ELSE IF x.d = 0 THEN x
  ELSE IF y.d = 0 THEN y
  ELSE LET g == GCD(x.d, y.d)
       IN Rat(x.n * (y.d \div g) + y.n * (x.d \div g), (x.d \div g) * y.d)

Sub(x, y) == Add(x, Neg(y))

Mul(x, y) ==
  IF IsNaN(x) \/ IsNaN(y) THEN NaN
  ELSE IF x.d = 0 \/ y.d = 0
       THEN (IF x.n = 0 \/ y.n = 0 THEN NaN ELSE [n |-> Sign(x.n) * Sign(y.n), d |-> 0])
  ELSE LET g1 == GCD(AbsInt(x.n), y.d)
           g2 == GCD(AbsInt(y.n), x.d)
       IN Rat((x.n \div g1) * (y.n \div g2), (x.d \div g2) * (y.d \div g1))

\* numpy/pandas division: x/0 is +-inf, 0/0 is nan, no exception
Div(x, y) ==
  IF IsNaN(x) \/ IsNaN(y) THEN NaN
  ELSE IF y.d = 0 THEN (IF x.d = 0 THEN NaN ELSE Zero)
  ELSE IF x.d = 0 THEN (IF y.n < 0 THEN Neg(x) ELSE x)
  ELSE IF y.n = 0 THEN [n |-> Sign(x.n), d |-> 0]
  ELSE Mul(x, Rat(y.d, y.n))

\* comparisons: every comparison with NaN is false
Lt(x, y) ==
  /\ ~IsNaN(x)
  /\ ~IsNaN(y)
  /\ IF x.d = 0 /\ y.d = 0 THEN x.n < y.n
     ELSE IF x.d = 0 THEN x.n < 0
     ELSE IF y.d = 0 THEN y.n > 0
     ELSE x.n * (y.d \div GCD(x.d, y.d)) < y.n * (x.d \div GCD(x.d, y.d))

Eq(x, y) == ~IsNaN(x) /\ ~IsNaN(y) /\ x = y
Leq(x, y) == Lt(x, y) \/ Eq(x, y)

AbsR(x) == [n |-> AbsInt(x.n), d |-> x.d]

\* a surd a + b*sqrt(v)
Surd(a, b, v) == [a |-> a, b |-> b, v |-> v]
SurdOf(x) == Surd(x, Zero, Zero)
SurdFinite(s) == IsFinite(s.a) /\ IsFinite(s.b) /\ IsFinite(s.v) /\ s.v.n >= 0
SurdIsZero(s) == SurdFinite(s) /\ IsZero(s.a) /\ (IsZero(s.b) \/ IsZero(s.v))
SurdScale(s, k) == Surd(Mul(s.a, k), Mul(s.b, k), s.v)
SurdShift(s, x) == Surd(Add(s.a, x), s.b, s.v)

\* p + q*sqrt(v) > 0, for finite p, q, v with v >= 0
SurdPos(p, q, v) ==
  LET q2v == Mul(Mul(q, q), v)
      p2 == Mul(p, p)
  IN IF q.n >= 0 /\ p.n >= 0 THEN (p.n > 0 \/ (q.n > 0 /\ v.n > 0))
     ELSE IF q.n <= 0 /\ p.n <= 0 THEN FALSE
     ELSE IF q.n > 0 THEN Lt(p2, q2v)
     ELSE Lt(q2v, p2)

\* s < t for two finite surds over the same radicand
SurdLt(s, t) ==
  /\ SurdFinite(s)
  /\ SurdFinite(t)
  /\ SurdPos(Sub(t.a, s.a), Sub(t.b, s.b), IF IsZero(t.b) THEN s.v ELSE t.v)

(***************************************************************************)
(* The request's record list: data['data'] of the request body, a list of   *)
(* records {date, cash_in, cash_out}.                                       *)
(***************************************************************************)
StartDay == 100

\* calendar of 365-day years; ordinal 1 is 1 January of EpochYear
EpochYear == 2021
MonthDays == <<31, 28, 31, 30, 31, 30, 31, 31, 30, 31, 30, 31>>

RECURSIVE DaysTo(_)
DaysTo(m) == IF m = 0 THEN 0 ELSE MonthDays[m] + DaysTo(m - 1)

\* the days of the year before month m
MonthStarts == List([m \in 1..12 |-> DaysTo(m - 1)])
DaysBefore(m) == MonthStarts[m]

\* pd.to_datetime of a 'YYYY-MM-DD' string, here <<YYYY, MM, DD>>
ToDatetime(s) == (s[1] - EpochYear) * 365 + DaysBefore(s[2]) + s[3]

\* Timestamp.dayofyear
DayOfYear(o) == ((o - 1) % 365) + 1

MonthOf(o) ==
  CHOOSE m \in 1..12 :
    DaysBefore(m) < DayOfYear(o) /\ DayOfYear(o) <= DaysBefore(m) + MonthDays[m]

\* the date of the day before
StrftimeDayBefore(o) ==
  <<EpochYear + ((o - 2) \div 365), MonthOf(o - 1), DayOfYear(o - 1) - DaysBefore(MonthOf(o - 1))>>

\* Timestamp.strftime('%Y-%m-%d')
Strftime(o) ==
  <<EpochYear + ((o - 1) \div 365), MonthOf(o), DayOfYear(o) - DaysBefore(MonthOf(o))>>

Record(d, ci, co) == [date |-> Strftime(d), cash_in |-> ci, cash_out |-> co]

\* (cash_in, cash_out) pairs of the short series
ShortPairs == {<<0, 0>>, <<0, 5>>, <<10, 0>>}

\* every series of at most MaxShort consecutive daily records over ShortPairs
ShortSeries ==
  UNION {{List([i \in 1..n |-> Record(StartDay + i - 1, f[i][1], f[i][2])]) :
            f \in [1..n -> ShortPairs]} : n \in 0..MaxShort}

\* lengths of the longer series: around the 7-row threshold of the forecast,
\* the 20-row threshold of the percentiles, the 30 rows the lag and rolling
\* features consume and the 60 rows the ML path needs
MidLens == {8, 20, 21, 35}
LongLens == {59} \cup (60..MaxLen)

\* a longer series repeats a base pair, except for its last record when pos # 0;
\* the longest series are the flat 1000/800 series and its variant, and the
\* series of outflows only has 8 records
BasePairs == {<<1000, 800>>, <<10, 0>>, <<0, 5>>}
OutlierPairs == {<<1000, 790>>, <<0, 0>>, <<0, 5>>, <<0, 50>>}

PatternSeries ==
  {List([i \in 1..n |-> IF i = pos THEN Record(StartDay + i - 1, o[1], o[2])
                                   ELSE Record(StartDay + i - 1, b[1], b[2])]) :
     <<n, b, o, pos>> \in
       {t \in (MidLens \cup LongLens) \X BasePairs \X OutlierPairs \X (0..MaxLen) :
          /\ t[4] \in {0, t[1]}
          /\ (t[4] = 0 => t[3] = <<0, 0>>)
          /\ (t[4] = 0 \/ (t[2][1] = 1000) = (t[3][1] = 1000))
          /\ (t[1] \in LongLens => t[2][1] = 1000)
          /\ (t[2][1] = 0 => (t[1] = 8 /\ t[4] = 0))}}

InputSeries == ShortSeries \cup PatternSeries

\* the columns of a record list as uploaded, and as add_features leaves it
InputCols == <<"date", "cash_in", "cash_out">>

FeatureNames ==
  <<"net_cash_flow", "cumulative_cash", "day_of_week", "month", "quarter", "year",
    "rolling_7d_avg", "rolling_30d_avg", "rolling_7d_std", "cash_flow_volatility">>

\* the columns of pd.DataFrame(data)
DataCols(rows) ==
  IF Len(rows) = 0 THEN <<>>
  ELSE IF "net_cash_flow" \in DOMAIN rows[1] THEN InputCols \o FeatureNames
  ELSE InputCols

(***************************************************************************)
(* pandas / numpy statistics over a column (a sequence of integers).        *)
(***************************************************************************)
\* the sum of s[lo..hi], by halves
RECURSIVE SumRange(_, _, _)
SumRange(s, lo, hi) ==
  IF lo > hi THEN 0
  ELSE IF lo = hi THEN s[lo]
  ELSE LET mid == (lo + hi) \div 2
       IN SumRange(s, lo, mid) + SumRange(s, mid + 1, hi)

\* Series.sum()
SumInt(s) == SumRange(s, 1, Len(s))

\* Series.cumsum(): the running totals of s[lo..hi], by halves; the totals of
\* the upper half continue from the last total of the lower half
RECURSIVE CumSumRange(_, _, _)
CumSumRange(s, lo, hi) ==
  IF lo > hi THEN <<>>
  ELSE IF lo = hi THEN <<s[lo]>>
  ELSE LET mid == (lo + hi) \div 2
           lower == CumSumRange(s, lo, mid)
           upper == CumSumRange(s, mid + 1, hi)
       IN lower \o [i \in 1..Len(upper) |-> lower[Len(lower)] + upper[i]]

\* the column itself, no total carried from row to row
NoCumSum(s) == s

CumSum(s) == CumSumRange(s, 1, Len(s))

\* Series.mean(): nan on an empty column
Mean(s) == Rat(SumInt(s), Len(s))

\* Series.std() squared (ddof = 1): nan below two rows
VarS(s) ==
  LET n == Len(s)
      sy == SumInt(s)
      syy == SumInt([i \in 1..n |-> s[i] * s[i]])
  IN IF n < 2 THEN NaN ELSE Rat(n * syy - sy * sy, n * (n - 1))

\* Series.std()
Std(s) == Surd(Zero, R(1), VarS(s))

\* np.var / np.std squared (ddof = 0)
VarP(s) ==
  LET n == Len(s)
      sy == SumInt(s)
      syy == SumInt([i \in 1..n |-> s[i] * s[i]])
  IN IF n < 1 THEN NaN ELSE Rat(n * syy - sy * sy, n * n)

\* the column sorted ascending
SortRank(s) ==
  List([i \in 1..Len(s) |->
          1 + Cardinality({j \in 1..Len(s) : s[j] < s[i] \/ (s[j] = s[i] /\ j < i)})])

Sorted(s) ==
  LET rank == SortRank(s)
  IN List([k \in 1..Len(s) |-> s[CHOOSE i \in 1..Len(s) : rank[i] = k]])

\* the percentile counted from the top of the column: the (100 - q)-th
PercentileFromTop(srt, q) ==
  LET n == Len(srt)
      k == ((100 - q) * (n - 1)) \div 100
      r == ((100 - q) * (n - 1)) % 100
  IN IF r = 0 THEN R(srt[k + 1])
     ELSE Rat(100 * srt[k + 1] + r * (srt[k + 2] - srt[k + 1]), 100)

\* np.percentile(s, q) for the sorted column srt of s: linear interpolation
\* between the closest ranks
Percentile(srt, q) ==
  LET n == Len(srt)
      k == (q * (n - 1)) \div 100
      r == (q * (n - 1)) % 100
  IN IF r = 0 THEN R(srt[k + 1])
     ELSE Rat(100 * srt[k + 1] + r * (srt[k + 2] - srt[k + 1]), 100)

\* the squares of a column
Squares(s) == List([i \in 1..Len(s) |-> s[i] * s[i]])

\* the sum of a column over rows lo..hi, from its running totals ps
WindowSum(ps, lo, hi) == IF lo > hi THEN 0 ELSE ps[hi] - (IF lo > 1 THEN ps[lo - 1] ELSE 0)

\* Series.rolling(w, min_periods = m).mean().iloc[i], from the running totals ps
\* of the column
RollingMeanAt(ps, w, m, i) ==
  LET lo == IF i - w + 1 < 1 THEN 1 ELSE i - w + 1
      cnt == i - lo + 1
  IN IF cnt < m THEN NaN ELSE Rat(WindowSum(ps, lo, i), cnt)

\* Series.rolling(w, min_periods = m).std().iloc[i] squared, from the running
\* totals ps of the column and pq of its squares: nan below m or below two rows
RollingVarAt(ps, pq, w, m, i) ==
  LET lo == IF i - w + 1 < 1 THEN 1 ELSE i - w + 1
      cnt == i - lo + 1
      sy == WindowSum(ps, lo, i)
      syy == WindowSum(pq, lo, i)
  IN IF cnt < m \/ cnt < 2 THEN NaN ELSE Rat(cnt * syy - sy * sy, cnt * (cnt - 1))

\* np.polyfit(range(n), s, 1): [slope, intercept] of the least-squares line
\* through (0, s[1]), ..., (n-1, s[n]); defined for n >= 2
Polyfit(s) ==
  LET n == Len(s)
      sx == SumInt([i \in 1..n |-> i - 1])
      sxx == SumInt([i \in 1..n |-> (i - 1) * (i - 1)])
      sy == SumInt(s)
      sxy == SumInt([i \in 1..n |-> (i - 1) * s[i]])
      den == n * sxx - sx * sx
  IN [slope |-> Rat(n * sxy - sx * sy, den),
      intercept |-> Rat(sy * sxx - sx * sxy, den)]

(***************************************************************************)
(* Outcomes of a call: a returned value or a raised exception.              *)
(***************************************************************************)
NoValue == [method |-> "none", strategy |-> "none"]
Return(v) == [raise |-> "", msg |-> <<>>, value |-> v]
Raise(e, m) == [raise |-> e, msg |-> m, value |-> NoValue]

(***************************************************************************)
(* AdvancedProjectionEngine.                                                *)
(***************************************************************************)
\* pd.DataFrame(data) with df['date'] = pd.to_datetime(df['date'])
Frame(rows) ==
  List([i \in 1..Len(rows) |->
          [date |-> ToDatetime(rows[i].date), cash_in |-> rows[i].cash_in,
           cash_out |-> rows[i].cash_out]])

\* df.sort_values('date').reset_index(drop=True): the sort is stable, rows
\* already in date order keep their places
SortValues(rows) ==
  LET rank == SortRank(List([i \in 1..Len(rows) |-> rows[i].date]))
  IN IF \A i \in 1..(Len(rows) - 1) : rows[i].date <= rows[i + 1].date THEN rows
     ELSE List([k \in 1..Len(rows) |-> rows[CHOOSE i \in 1..Len(rows) : rank[i] = k]])

\* df['net_cash_flow'] = df['cash_in'] - df['cash_out']
NetCashFlow(df) == List([i \in 1..Len(df) |-> df[i].cash_in - df[i].cash_out])

\* df['cumulative_cash'] = df['net_cash_flow'].cumsum()
CumulativeCash(df) == CumSum(NetCashFlow(df))

\* df['date'].max()
LastDate(df) ==
  CHOOSE d \in {df[i].date : i \in 1..Len(df)} :
    \A i \in 1..Len(df) : df[i].date <= d

\* the loop "cumulative += projected_flow" from a starting balance
RECURSIVE AccumulateTo(_, _, _)
AccumulateTo(start, flows, k) ==
  IF k = 0 THEN <<>>
  ELSE LET prev == AccumulateTo(start, flows, k - 1)
       IN Append(prev, Add(IF k = 1 THEN start ELSE prev[k - 1], flows[k]))

\* each step added to the starting balance alone
AccumulateEachAlone(start, flows) == List([i \in 1..Len(flows) |-> Add(start, flows[i])])

\* running totals that start from nothing
AccumulateFromZero(start, flows) == AccumulateTo(Zero, flows, Len(flows))

Accumulate(start, flows) == AccumulateTo(start, flows, Len(flows))

\* np.polyfit(range(len(s)), s, 1). On one row the scaled design matrix holds a
\* nan (0/0): LAPACK's least squares then either fails to converge, and numpy
\* raises LinAlgError, or returns nan coefficients, depending on the build.
LapackOutcomes(n) == IF n = 1 THEN {"raise", "nan"} ELSE {"ok"}

PolyfitCall(s, lapack) ==
  IF lapack = "raise"
  THEN Raise("LinAlgError", <<"SVD did not converge in Linear Least Squares">>)
  ELSE Return(Polyfit(s))

\* a band of 10% around the projected flow
SimpleBandTenPercent == [lower |-> Rat(9, 10), upper |-> Rat(11, 10)]

\* projected_flow * 0.8 and projected_flow * 1.2, the band of _simple_projection
SimpleBand == [lower |-> Rat(8, 10), upper |-> Rat(12, 10)]

\* _simple_projection
SimpleProjection(df, horizon, lapack) ==
  LET n == Len(df)
      net == NetCashFlow(df)
      cum == CumulativeCash(df)
      ma_7 == RollingMeanAt(cum, 7, 1, n)
      last_date == LastDate(df)
      recent_avg == IF IsNaN(ma_7) THEN Mean(net) ELSE ma_7
      fit == PolyfitCall(net, lapack)
      trend == fit.value.slope
      flows == List([i \in 1..horizon |-> Add(recent_avg, Mul(trend, R(i)))])
      cums == Accumulate(R(cum[n]), flows)
  IN IF fit.raise # "" THEN fit
     ELSE Return(
       [method |-> "simple",
        projections |->
          [i \in 1..horizon |->
             [date |-> Strftime(last_date + i),
              net_cash_flow |-> flows[i],
              cumulative_cash |-> cums[i],
              confidence_lower |-> Mul(flows[i], SimpleBand.lower),
              confidence_upper |-> Mul(flows[i], SimpleBand.upper)]],
        metrics |->
          [trend |-> trend, recent_average |-> recent_avg, volatility |-> Std(net)]])

(***************************************************************************)
(* Diagnostics whose magnitude nothing downstream reads are kept as their   *)
(* float class: "nan", "inf", "zero", "pos" or "neg".                       *)
(***************************************************************************)
ClassFinite(c) == c \in {"zero", "pos", "neg"}

\* the class of np.std(xs) for a list of floats
StdClass(xs) ==
  IF Len(xs) = 0 \/ (\E i \in 1..Len(xs) : ~IsFinite(xs[i])) THEN "nan"
  ELSE IF \A i \in 1..Len(xs) : xs[i] = xs[1] THEN "zero"
  ELSE "pos"

\* the class of a / b for two non-negative values
RatioClass(a, b) ==
  IF a = "nan" \/ b = "nan" THEN "nan"
  ELSE IF b = "zero" THEN (IF a = "zero" THEN "nan" ELSE "inf")
  ELSE IF b = "inf" THEN (IF a = "inf" THEN "nan" ELSE "zero")
  ELSE a

\* np.corrcoef(range(n), trend)[0, 1] for the fitted line trend[i] = slope*i +
\* intercept: the sign of the slope, and 0/0 when the line or the index is flat
CorrCoefLine(n, slope) ==
  IF n < 2 \/ ~IsFinite(slope) \/ IsZero(slope) THEN "nan"
  ELSE IF slope.n > 0 THEN "pos" ELSE "neg"

\* the mean of the column s over the rows idx
MeanOver(s, idx) == Rat(SumInt(List([k \in 1..Len(idx) |-> s[idx[k]]])), Len(idx))

\* _calculate_seasonal_patterns: mean net flow per day of year present
SeasonalPatterns(df) ==
  LET net == NetCashFlow(df)
      doy == List([i \in 1..Len(df) |-> DayOfYear(df[i].date)])
      rows == List([i \in 1..Len(df) |-> i])
  IN [day \in {doy[i] : i \in 1..Len(df)} |->
        MeanOver(net, SelectSeq(rows, LAMBDA i : doy[i] = day))]

\* _decompose_timeseries
DecomposeTimeseries(net, coef) ==
  LET n == Len(net)
      trend == List([i \in 1..n |-> Add(Mul(coef.slope, R(i - 1)), coef.intercept)])
      seasonal == List([i \in 1..n |-> IF i - 1 < 7 THEN Zero ELSE Sub(R(net[i]), trend[i])])
      residual == List([i \in 1..n |-> Sub(Sub(R(net[i]), trend[i]), seasonal[i])])
  IN [trend |-> trend, seasonal |-> seasonal, residual |-> residual]

\* the draws of np.random.choice(residual, 1)[0] explored: the residuals of the
\* first and of the last row
DrawValues(df, lapack) ==
  LET net == NetCashFlow(df)
      fit == PolyfitCall(net, lapack)
  IN IF fit.raise # "" \/ Len(df) = 0 THEN {Zero}
     ELSE {DecomposeTimeseries(net, fit.value).residual[i] : i \in {1, Len(df)}}

\* _advanced_projection after the decomposition: the loop over the horizon
AdvancedSteps(df, net, coef, dec, seasonal_patterns, horizon, draws) ==
  LET n == Len(df)
      cum == CumulativeCash(df)
      trend == dec.trend
      last_date == LastDate(df)
      trend_component(i) ==
        IF n > 1 THEN Add(trend[n], Mul(Sub(trend[n], trend[n - 1]), R(i)))
        ELSE trend[n]
      seasonal_component(i) ==
        LET day_of_year == DayOfYear(last_date + i)
        IN IF day_of_year \in DOMAIN seasonal_patterns
           THEN seasonal_patterns[day_of_year] ELSE Zero
      noise(i) == IF n > 0 THEN Mul(draws[i], Rat(1, 10)) ELSE Zero
      flows == List([i \in 1..horizon |->
                       Add(Add(trend_component(i), seasonal_component(i)), noise(i))])
      cums == Accumulate(R(cum[n]), flows)
      std_dev == Std(net)
  IN Return(
       [method |-> "advanced",
        projections |->
          [i \in 1..horizon |->
             [date |-> Strftime(last_date + i),
              net_cash_flow |-> flows[i],
              cumulative_cash |-> cums[i],
              trend_component |-> trend_component(i),
              seasonal_component |-> seasonal_component(i),
              confidence_lower |-> SurdShift(SurdScale(std_dev, Rat(-196, 100)), flows[i]),
              confidence_upper |-> SurdShift(SurdScale(std_dev, Rat(196, 100)), flows[i])]],
        seasonal_patterns |-> seasonal_patterns,
        decomposition |->
          [trend_strength |-> CorrCoefLine(n, coef.slope),
           seasonal_strength |->
             RatioClass(StdClass(dec.seasonal), StdClass([i \in 1..n |-> R(net[i])])),
           residual_std |-> StdClass(dec.residual)]])

\* _advanced_projection
AdvancedProjection(df, horizon, lapack, draws) ==
  LET net == NetCashFlow(df)
      fit == PolyfitCall(net, lapack)
  IN IF fit.raise # "" THEN fit
     ELSE AdvancedSteps(df, net, fit.value, DecomposeTimeseries(net, fit.value),
                        SeasonalPatterns(df), horizon, draws)

(***************************************************************************)
(* The ML path: feature columns, training, prediction.                      *)
(***************************************************************************)
Lags == <<1, 3, 7, 14, 30>>
Windows == <<7, 14, 30>>

\* a threshold ten rows lower
FewerTrainingRows == 30 - 10

\* "if len(df_ml) < 30" of _ml_projection
MinTrainingRows == 30

InSeq(x, seq) == \E i \in 1..Len(seq) : seq[i] = x

\* assigning df[c] for each c of new: a new column is appended, an existing
\* one keeps its place
AddCols(cols, new) ==
  cols \o SelectSeq(new, LAMBDA c : ~InSeq(c, cols))

RECURSIVE Flatten(_)
Flatten(seqs) == IF seqs = <<>> THEN <<>> ELSE Head(seqs) \o Flatten(Tail(seqs))

LagCols ==
  Flatten([k \in 1..Len(Lags) |->
     <<"cash_in_lag_" \o ToString(Lags[k]),
       "cash_out_lag_" \o ToString(Lags[k]),
       "net_cash_flow_lag_" \o ToString(Lags[k])>>])

RollingCols ==
  Flatten([k \in 1..Len(Windows) |->
     <<"cash_in_ma_" \o ToString(Windows[k]),
       "cash_out_ma_" \o ToString(Windows[k]),
       "net_cash_flow_ma_" \o ToString(Windows[k]),
       "net_cash_flow_std_" \o ToString(Windows[k]),
       "net_cash_flow_min_" \o ToString(Windows[k]),
       "net_cash_flow_max_" \o ToString(Windows[k])>>])

CalendarCols == <<"day_of_week", "month", "quarter", "day_of_year", "week_of_year">>

\* the columns _simple_projection and _advanced_projection leave on df
SimpleCols(cols) == AddCols(cols, <<"net_cash_flow", "cumulative_cash">>)

AdvancedCols(cols) ==
  AddCols(cols, <<"net_cash_flow", "cumulative_cash", "day_of_week", "month", "quarter",
                  "day_of_year">>)

\* _prepare_ml_features: the columns of df_ml
MLFrameCols(cols) ==
  AddCols(cols, <<"net_cash_flow", "cumulative_cash">> \o CalendarCols \o LagCols
                  \o RollingCols)

\* row i (from 1) survives dropna(): shift(lag) is undefined on the first lag
\* rows, rolling(window) on the first window - 1 rows
UsableRow(i) ==
  /\ \A k \in 1..Len(Lags) : i > Lags[k]
  /\ \A k \in 1..Len(Windows) : i >= Windows[k]

\* _prepare_ml_features: the rows of df_ml
PrepareMLFeatures(df) == SelectSeq([i \in 1..Len(df) |-> i], UsableRow)

\* feature_cols of _train_ml_models, _prepare_future_features, _evaluate_models
FeatureCols(cols) ==
  SelectSeq(cols, LAMBDA c : c \notin {"date", "net_cash_flow", "cumulative_cash"})

ModelNames == <<"random_forest", "gradient_boosting", "linear_regression">>

\* _train_ml_models: each fitted estimator remembers the width of its training
\* matrix and the rows it was fitted on
TrainMLModels(df, rows, cols) ==
  [m \in {ModelNames[k] : k \in 1..Len(ModelNames)} |->
     [n_features_in |-> Len(FeatureCols(cols)),
      trained_on |-> List([k \in 1..Len(rows) |-> df[rows[k]]])]]

\* an engine as __init__ leaves it: self.models = {}, self.scalers = {}
NewEngine == [models |-> [m \in {} |-> 0], scalers |-> [m \in {} |-> 0]]

\* an engine that fits only the estimators it does not hold yet
TrainMLModelsKept(state, df, rows, cols) ==
  IF DOMAIN state.models # {} THEN state
  ELSE [models |-> TrainMLModels(df, rows, cols),
        scalers |-> [m \in {"linear_regression"} |->
                       [n_features_in |-> Len(FeatureCols(cols)),
                        fitted_on |-> List([k \in 1..Len(rows) |-> df[rows[k]]])]]]

\* self.models and self.scalers after _train_ml_models: every estimator of the
\* local dict is fitted and stored under its name, the scaler of the linear
\* regression is fitted and stored before it; other keys are left as they were
TrainMLModelsInto(state, df, rows, cols) ==
  [models |->
     [m \in DOMAIN state.models \cup {ModelNames[k] : k \in 1..Len(ModelNames)} |->
        IF InSeq(m, ModelNames) THEN TrainMLModels(df, rows, cols)[m]
        ELSE state.models[m]],
   scalers |->
     [m \in DOMAIN state.scalers \cup {"linear_regression"} |->
        IF m = "linear_regression"
        THEN [n_features_in |-> Len(FeatureCols(cols)),
              fitted_on |-> List([k \in 1..Len(rows) |-> df[rows[k]]])]
        ELSE state.scalers[m]]]

\* scaler.transform([features]) raises ValueError on a row of the wrong width
TransformRaises(scaler, features) == Len(features) # scaler.n_features_in

\* _prepare_future_features: one feature list per future date
FutureFeatureNames == CalendarCols \o LagCols \o RollingCols

\* estimator.predict([features]) raises ValueError on a row of the wrong width
PredictRaises(model, features) == Len(features) # model.n_features_in

\* the values a fitted estimator can predict
PredictionValues == {0, 10}

\* the random outcomes of one call: np.random.choice in _advanced_projection
\* and the predictions of the fitted estimators
NoPreds == [m \in {} |-> <<>>]

PredChoices(df, cols, horizon) ==
  LET rows == PrepareMLFeatures(df)
      models == TrainMLModels(df, rows, MLFrameCols(cols))
  IN IF Len(rows) < MinTrainingRows THEN {NoPreds}
     ELSE IF \E m \in DOMAIN models : PredictRaises(models[m], FutureFeatureNames)
     THEN {NoPreds}
     ELSE [DOMAIN models -> [1..horizon -> PredictionValues]]

\* np.mean of a list of floats
RECURSIVE SumRRange(_, _, _)
SumRRange(xs, lo, hi) ==
  IF lo > hi THEN Zero
  ELSE IF lo = hi THEN xs[lo]
  ELSE LET mid == (lo + hi) \div 2
           left == SumRRange(xs, lo, mid)
           right == SumRRange(xs, mid + 1, hi)
       IN Add(left, right)

MeanR(xs) == Div(SumRRange(xs, 1, Len(xs)), R(Len(xs)))

\* np.var of a list of floats: mean(abs(x - x.mean())**2)
VarR(xs) ==
  LET m == MeanR(xs)
  IN MeanR([i \in 1..Len(xs) |-> Mul(Sub(xs[i], m), Sub(xs[i], m))])

\* _ml_projection from the prediction loop on, with self.models and
\* self.scalers as _train_ml_models left them in state; cols are the columns of
\* df at the call. Of the fitted models' scores only the features they are keyed
\* by are kept.
MLPredict(state, df, cols, horizon, lapack, preds) ==
  LET ml_cols == MLFrameCols(cols)
      models == state.models
      last_date == LastDate(df)
      start == IF InSeq("cumulative_cash", cols) THEN R(CumulativeCash(df)[Len(df)])
               ELSE Zero
      predictions(i) == [k \in 1..Len(ModelNames) |-> R(preds[ModelNames[k]][i])]
      flows == List([i \in 1..horizon |-> MeanR(predictions(i))])
      cums == Accumulate(start, flows)
      std_pred(i) == Surd(Zero, R(1), VarR(predictions(i)))
  IN IF \E m \in DOMAIN models :
          IF m \in DOMAIN state.scalers
          THEN TransformRaises(state.scalers[m], FutureFeatureNames)
               \/ PredictRaises(models[m], FutureFeatureNames)
          ELSE PredictRaises(models[m], FutureFeatureNames)
     THEN Raise("ValueError", <<"X has a different number of features than the estimator expects">>)
     ELSE Return(
       [method |-> "ml",
        projections |->
          [i \in 1..horizon |->
             [date |-> Strftime(last_date + i),
              net_cash_flow |-> flows[i],
              cumulative_cash |-> cums[i],
              model_predictions |-> [m \in DOMAIN models |-> R(preds[m][i])],
              prediction_std |-> std_pred(i),
              confidence_lower |-> SurdShift(SurdScale(std_pred(i), Rat(-196, 100)), flows[i]),
              confidence_upper |-> SurdShift(SurdScale(std_pred(i), Rat(196, 100)), flows[i])]],
        feature_importance |-> [m \in DOMAIN models |-> FeatureCols(ml_cols)]])

\* _ml_projection on an engine whose self.models and self.scalers are state
MLProjectionOn(state, df, cols, horizon, lapack, preds) ==
  IF Len(PrepareMLFeatures(df)) < MinTrainingRows THEN SimpleProjection(df, horizon, lapack)
  ELSE MLPredict(TrainMLModelsInto(state, df, PrepareMLFeatures(df), MLFrameCols(cols)),
                 df, cols, horizon, lapack, preds)

\* _ml_projection on a new engine
MLProjection(df, cols, horizon, lapack, preds) ==
  MLProjectionOn(NewEngine, df, cols, horizon, lapack, preds)

\* _calculate_variance_reduction
CalculateVarianceReduction(projections_list) ==
  LET Flows(k) == [i \in 1..Len(projections_list[k]) |-> projections_list[k][i].net_cash_flow]
      individual_variances == List([k \in 1..Len(projections_list) |-> VarR(Flows(k))])
      avg_individual_variance == MeanR(individual_variances)
      ensemble_flows ==
        [i \in 1..Len(projections_list[1]) |->
           MeanR([k \in 1..Len(projections_list) |-> projections_list[k][i].net_cash_flow])]
      ensemble_variance == VarR(ensemble_flows)
  IN IF Len(projections_list) < 2 THEN Zero
     ELSE Div(Sub(avg_individual_variance, ensemble_variance), avg_individual_variance)

\* the weights with those of the advanced and of the ml projection exchanged
WeightsExchanged == <<Rat(2, 10), Rat(5, 10), Rat(3, 10)>>

\* the weights of _ensemble_projection: simple, advanced, ml
Weights == <<Rat(2, 10), Rat(3, 10), Rat(5, 10)>>

EnsembleFlow(simple_flow, advanced_flow, ml_flow) ==
  Add(Add(Mul(simple_flow, Weights[1]), Mul(advanced_flow, Weights[2])),
      Mul(ml_flow, Weights[3]))

\* _ensemble_projection once the three sub-projections have returned
EnsembleSteps(df, cols, sp, ap, mp) ==
  LET flows == List([i \in 1..Len(sp) |->
                       EnsembleFlow(sp[i].net_cash_flow, ap[i].net_cash_flow,
                                    mp[i].net_cash_flow)])
      start == IF InSeq("cumulative_cash", cols) THEN R(CumulativeCash(df)[Len(df)])
               ELSE Zero
      cums == Accumulate(start, flows)
  IN Return(
       [method |-> "ensemble",
        projections |->
          [i \in 1..Len(sp) |->
             [date |-> sp[i].date,
              net_cash_flow |-> flows[i],
              cumulative_cash |-> cums[i],
              simple_projection |-> sp[i].net_cash_flow,
              advanced_projection |-> ap[i].net_cash_flow,
              ml_projection |-> mp[i].net_cash_flow,
              confidence_lower |-> Mul(flows[i], Rat(85, 100)),
              confidence_upper |-> Mul(flows[i], Rat(115, 100))]],
        model_weights |-> [simple |-> Weights[1], advanced |-> Weights[2], ml |-> Weights[3]],
        ensemble_metrics |->
          [variance_reduction |-> CalculateVarianceReduction(<<sp, ap, mp>>)]])

\* _ensemble_projection: the first sub-projection that raises ends the call
EnsembleOf(df, cols, simple_proj, advanced_proj, ml_proj) ==
  IF simple_proj.raise # "" THEN simple_proj
  ELSE IF advanced_proj.raise # "" THEN advanced_proj
  ELSE IF ml_proj.raise # "" THEN ml_proj
  ELSE EnsembleSteps(df, cols, simple_proj.value.projections,
                     advanced_proj.value.projections, ml_proj.value.projections)

\* _ensemble_projection on an engine whose self.models and self.scalers are
\* state; data_cols are the columns of df at the call
EnsembleProjectionOn(state, df, data_cols, horizon, lapack, draws, preds) ==
  EnsembleOf(df, AdvancedCols(SimpleCols(data_cols)),
             SimpleProjection(df, horizon, lapack),
             AdvancedProjection(df, horizon, lapack, draws),
             MLProjectionOn(state, df, AdvancedCols(SimpleCols(data_cols)), horizon, lapack,
                            preds))

\* _ensemble_projection on a new engine
EnsembleProjection(df, data_cols, horizon, lapack, draws, preds) ==
  EnsembleProjectionOn(NewEngine, df, data_cols, horizon, lapack, draws, preds)

\* generate_liquidity_projection on an engine whose self.models and
\* self.scalers are state
GenerateLiquidityProjectionOn(state, rows, method, horizon, lapack, draws, preds) ==
  LET df == SortValues(Frame(rows))
  IN IF Len(rows) = 0 THEN Raise("KeyError", <<"date">>)
     ELSE IF method = "simple" THEN SimpleProjection(df, horizon, lapack)
     ELSE IF method = "advanced" THEN AdvancedProjection(df, horizon, lapack, draws)
     ELSE IF method = "ensemble"
     THEN EnsembleProjectionOn(state, df, DataCols(rows), horizon, lapack, draws, preds)
     ELSE IF method = "ml"
     THEN MLProjectionOn(state, df, DataCols(rows), horizon, lapack, preds)
     ELSE Raise("ValueError", <<"Unknown projection method: ", method>>)

\* generate_liquidity_projection on a new engine
GenerateLiquidityProjection(rows, method, horizon, lapack, draws, preds) ==
  GenerateLiquidityProjectionOn(NewEngine, rows, method, horizon, lapack, draws, preds)

\* whether a call of generate_liquidity_projection reaches _train_ml_models:
\* 'ml' does when 30 rows are usable, 'ensemble' when moreover its simple and
\* advanced projections have returned
ReachesTraining(rows, method, horizon, lapack, draws) ==
  /\ Len(rows) > 0
  /\ method \in {"ml", "ensemble"}
  /\ Len(PrepareMLFeatures(SortValues(Frame(rows)))) >= MinTrainingRows
  /\ method = "ensemble" =>
       /\ SimpleProjection(SortValues(Frame(rows)), horizon, lapack).raise = ""
       /\ AdvancedProjection(SortValues(Frame(rows)), horizon, lapack, draws).raise = ""

\* self.models and self.scalers after a call of generate_liquidity_projection
EngineAfter(state, rows, method, horizon, lapack, draws) ==
  IF ReachesTraining(rows, method, horizon, lapack, draws)
  THEN TrainMLModelsInto(state, SortValues(Frame(rows)),
                         PrepareMLFeatures(SortValues(Frame(rows))),
                         MLFrameCols(IF method = "ensemble"
                                     THEN AdvancedCols(SimpleCols(DataCols(rows)))
                                     ELSE DataCols(rows)))
  ELSE state

\* the risk levels with the liquidity buffers of conservative and aggressive
\* exchanged
RiskConfigsBuffersExchanged ==
  [conservative |->
     [min_reserve_ratio |-> Rat(20, 100), max_investment_ratio |-> Rat(10, 100),
      volatility_tolerance |-> Rat(5, 100), liquidity_buffer |-> Rat(5, 100)],
   moderate |->
     [min_reserve_ratio |-> Rat(15, 100), max_investment_ratio |-> Rat(25, 100),
      volatility_tolerance |-> Rat(10, 100), liquidity_buffer |-> Rat(10, 100)],
   aggressive |->
     [min_reserve_ratio |-> Rat(10, 100), max_investment_ratio |-> Rat(40, 100),
      volatility_tolerance |-> Rat(20, 100), liquidity_buffer |-> Rat(15, 100)]]

(***************************************************************************)
(* CashFlowOptimizer.                                                       *)
(***************************************************************************)
RiskConfigs ==
  [conservative |->
     [min_reserve_ratio |-> Rat(20, 100), max_investment_ratio |-> Rat(10, 100),
      volatility_tolerance |-> Rat(5, 100), liquidity_buffer |-> Rat(15, 100)],
   moderate |->
     [min_reserve_ratio |-> Rat(15, 100), max_investment_ratio |-> Rat(25, 100),
      volatility_tolerance |-> Rat(10, 100), liquidity_buffer |-> Rat(10, 100)],
   aggressive |->
     [min_reserve_ratio |-> Rat(10, 100), max_investment_ratio |-> Rat(40, 100),
      volatility_tolerance |-> Rat(20, 100), liquidity_buffer |-> Rat(5, 100)]]

RiskLevels == DOMAIN RiskConfigs

\* _get_risk_parameters: risk_configs.get(self.risk_level, risk_configs['moderate'])
GetRiskParameters(risk_level) ==
  IF risk_level \in DOMAIN RiskConfigs THEN RiskConfigs[risk_level]
  ELSE RiskConfigs["moderate"]

\* Series.min() and Series.max() of an integer column
RECURSIVE MinRange(_, _, _)
MinRange(s, lo, hi) ==
  IF lo = hi THEN s[lo]
  ELSE LET mid == (lo + hi) \div 2
           a == MinRange(s, lo, mid)
           b == MinRange(s, mid + 1, hi)
       IN IF b < a THEN b ELSE a

MinInt(s) == MinRange(s, 1, Len(s))

RECURSIVE MaxRange(_, _, _)
MaxRange(s, lo, hi) ==
  IF lo = hi THEN s[lo]
  ELSE LET mid == (lo + hi) \div 2
           a == MaxRange(s, lo, mid)
           b == MaxRange(s, mid + 1, hi)
       IN IF a < b THEN b ELSE a

MaxInt(s) == MaxRange(s, 1, Len(s))

\* a recommendation: its text with the formatted amount left out, and the amount
Advice(text) == [text |-> text, amount |-> SurdOf(Zero)]
AdviceOf(text, amount) == [text |-> text, amount |-> amount]

\* _basic_optimization
BasicOptimization(rows, risk_level) ==
  LET net == NetCashFlow(rows)
      risk_params == GetRiskParameters(risk_level)
      min_net_flow == MinInt(net)
      min_reserve == IF min_net_flow < 0 THEN R(AbsInt(min_net_flow)) ELSE Zero
      safety_buffer == Mul(min_reserve, risk_params.liquidity_buffer)
      recommended_reserve == Add(min_reserve, safety_buffer)
  IN IF Len(rows) = 0 THEN Raise("KeyError", <<"cash_in">>)
     ELSE Return(
       [strategy |-> "basic",
        risk_level |-> risk_level,
        minimum_reserve |-> recommended_reserve,
        safety_buffer |-> safety_buffer,
        cash_flow_volatility |-> Std(net),
        recommendations |->
          <<AdviceOf("Maintain minimum reserve of $", SurdOf(recommended_reserve)),
            AdviceOf("Monitor cash flow volatility: ", Std(net)),
            Advice("Consider daily cash flow monitoring")>>])

\* Series.expanding().max()
RECURSIVE RunningMaxRange(_, _, _)
RunningMaxRange(s, lo, hi) ==
  IF lo > hi THEN <<>>
  ELSE IF lo = hi THEN <<s[lo]>>
  ELSE LET mid == (lo + hi) \div 2
           lower == RunningMaxRange(s, lo, mid)
           upper == RunningMaxRange(s, mid + 1, hi)
           top == lower[Len(lower)]
       IN lower \o [i \in 1..Len(upper) |-> IF upper[i] < top THEN top ELSE upper[i]]

RunningMax(s) == RunningMaxRange(s, 1, Len(s))

\* Series.min() of floats: nan values are skipped, nan if nothing is left
MinSkipNa(xs) ==
  LET vals == {xs[i] : i \in {j \in 1..Len(xs) : ~IsNaN(xs[j])}}
  IN IF vals = {} THEN NaN ELSE CHOOSE x \in vals : \A y \in vals : Leq(x, y)

\* drawdown = (cumulative - running_max) / running_max; drawdown.min()
MaxDrawdown(cum) ==
  LET running_max == RunningMax(cum)
      drawdown == List([i \in 1..Len(cum) |-> Div(R(cum[i] - running_max[i]), R(running_max[i]))])
  IN MinSkipNa(drawdown)

\* the one element of a singleton set
TheOnly(S) == CHOOSE x \in S : Cardinality(S) = 1

SurdNaN == Surd(NaN, Zero, Zero)

\* rolling_vol.mean() for the squared rolling deviations vols: the mean of the
\* defined ones, exact when the non-zero ones are all equal
MeanRollingStd(vols) ==
  LET defined == {i \in 1..Len(vols) : IsFinite(vols[i])}
      nonzero == {i \in defined : ~IsZero(vols[i])}
  IN IF defined = {} THEN SurdNaN
     ELSE IF nonzero = {} THEN SurdOf(Zero)
     ELSE Surd(Zero, Rat(Cardinality(nonzero), Cardinality(defined)),
               TheOnly({vols[i] : i \in nonzero}))

\* the difference of two deviations sqrt(v) - sqrt(u)
StdDiff(v, u) ==
  IF ~IsFinite(v) \/ ~IsFinite(u) THEN SurdNaN
  ELSE IF v = u THEN SurdOf(Zero)
  ELSE IF IsZero(u) THEN Surd(Zero, R(1), v)
  ELSE Surd(Zero, R(-1), TheOnly({w \in {u} : IsZero(v)}))

\* net_cash_flow.rolling(30).std() squared, from the running totals ps of the
\* column and pq of its squares
RollingVolatility(ps, pq) ==
  List([i \in 1..Len(ps) |-> RollingVarAt(ps, pq, 30, 30, i)])

\* _calculate_risk_metrics
CalculateRiskMetrics(net, cum) ==
  LET n == Len(net)
      srt == Sorted(net)
      var_95 == Percentile(srt, 5)
      var_99 == Percentile(srt, 1)
      Below(v) == SelectSeq(net, LAMBDA y : Leq(R(y), v))
      rolling_vol == RollingVolatility(CumSum(net), CumSum(Squares(net)))
  IN [var_95 |-> var_95,
      var_99 |-> var_99,
      cvar_95 |-> Mean(Below(var_95)),
      cvar_99 |-> Mean(Below(var_99)),
      max_drawdown |-> MaxDrawdown(cum),
      avg_volatility |-> MeanRollingStd(rolling_vol),
      volatility_trend |-> StdDiff(rolling_vol[n], rolling_vol[1])]

\* Python's min(a, b)
MinPy(a, b) == IF Lt(b, a) THEN b ELSE a

\* _analyze_investment_opportunities
AnalyzeInvestmentOpportunities(net, cum, risk_params) ==
  LET surplus_periods == SelectSeq(net, LAMBDA y : y > 0)
      avg_surplus == IF Len(surplus_periods) > 0 THEN Mean(surplus_periods) ELSE Zero
      max_investment == Mul(R(MaxInt(cum)), risk_params.max_investment_ratio)
  IN [total_surplus |-> R(SumInt(surplus_periods)),
      avg_surplus |-> avg_surplus,
      max_investment |-> max_investment,
      strategies |->
        [short_term |->
           [amount |-> MinPy(Mul(avg_surplus, R(7)), Mul(max_investment, Rat(3, 10))),
            expected_return |-> Rat(2, 100)],
         medium_term |->
           [amount |-> MinPy(Mul(avg_surplus, R(30)), Mul(max_investment, Rat(5, 10))),
            expected_return |-> Rat(4, 100)],
         long_term |->
           [amount |-> MinPy(Mul(avg_surplus, R(90)), Mul(max_investment, Rat(2, 10))),
            expected_return |-> Rat(8, 100)]]]

ForecastDays == 30

\* _forecast_cash_flow
ForecastCashFlow(rows, lapack) ==
  LET df == SortValues(Frame(rows))
      n == Len(df)
      net == NetCashFlow(df)
      cum == CumSum(net)
      ma_7(i) == RollingMeanAt(cum, 7, 7, i)
      fit == PolyfitCall(net, lapack)
      trend == fit.value.slope
      last_date == LastDate(df)
      base_forecast == IF IsNaN(ma_7(n)) THEN Mean(net) ELSE ma_7(n)
      forecast_values == List([i \in 1..ForecastDays |-> Add(base_forecast, Mul(trend, R(i - 1)))])
      err == List([k \in 1..(IF n < 7 THEN 0 ELSE n - 6) |->
                     Sub(R(net[k + 6]), ma_7(k + 6))])
      abs_err == List([k \in 1..Len(err) |-> AbsR(err[k])])
      sq_err == List([k \in 1..(n - 7) |-> Mul(err[k + 1], err[k + 1])])
  IN IF fit.raise # "" THEN fit
     ELSE IF n <= 7 THEN Raise("ValueError", <<"Found array with 0 sample(s)">>)
     ELSE Return(
       [forecast_dates |-> [i \in 1..ForecastDays |-> Strftime(last_date + i)],
        forecast_values |-> forecast_values,
        confidence_interval |->
          [lower |-> [i \in 1..ForecastDays |-> Mul(forecast_values[i], Rat(8, 10))],
           upper |-> [i \in 1..ForecastDays |-> Mul(forecast_values[i], Rat(12, 10))]],
        trend |-> trend,
        accuracy_metrics |->
          [mae |-> MeanR(abs_err), rmse |-> Surd(Zero, R(1), MeanR(sq_err))]])

\* the recommendations with the drawdown message given at any drawdown
GenerateAdvancedRecommendationsAnyDrawdown(risk_metrics, investment_analysis, risk_params) ==
  <<Advice("High drawdown detected - consider increasing reserve buffer")>>
  \o (IF SurdLt(SurdOf(risk_params.volatility_tolerance), risk_metrics.avg_volatility)
      THEN <<Advice("High volatility detected - implement cash flow smoothing strategies")>>
      ELSE <<>>)
  \o (IF Lt(Zero, investment_analysis.avg_surplus)
      THEN <<AdviceOf("Consider investing $ in short-term instruments",
                      SurdOf(investment_analysis.avg_surplus))>>
      ELSE <<>>)
  \o <<Advice("Implement daily cash flow monitoring"),
       Advice("Set up automated alerts for cash flow anomalies"),
       Advice("Consider diversifying cash flow sources")>>

\* _generate_advanced_recommendations
GenerateAdvancedRecommendations(risk_metrics, investment_analysis, risk_params) ==
  (IF Lt(risk_metrics.max_drawdown, Rat(-2, 10))
   THEN <<Advice("High drawdown detected - consider increasing reserve buffer")>>
   ELSE <<>>)
  \o (IF SurdLt(SurdOf(risk_params.volatility_tolerance), risk_metrics.avg_volatility)
      THEN <<Advice("High volatility detected - implement cash flow smoothing strategies")>>
      ELSE <<>>)
  \o (IF Lt(Zero, investment_analysis.avg_surplus)
      THEN <<AdviceOf("Consider investing $ in short-term instruments",
                      SurdOf(investment_analysis.avg_surplus))>>
      ELSE <<>>)
  \o <<Advice("Implement daily cash flow monitoring"),
       Advice("Set up automated alerts for cash flow anomalies"),
       Advice("Consider diversifying cash flow sources")>>

\* _advanced_optimization once its three analyses have run
AdvancedResult(risk_level, risk_metrics, investment_analysis, forecast) ==
  IF forecast.raise # "" THEN forecast
  ELSE Return(
    [strategy |-> "advanced",
     risk_level |-> risk_level,
     risk_metrics |-> risk_metrics,
     investment_analysis |-> investment_analysis,
     forecast |-> forecast.value,
     recommendations |->
       GenerateAdvancedRecommendations(risk_metrics, investment_analysis,
                                       GetRiskParameters(risk_level))])

\* _advanced_optimization
AdvancedOptimization(rows, risk_level, lapack) ==
  IF Len(rows) = 0 THEN Raise("KeyError", <<"cash_in">>)
  ELSE AdvancedResult(risk_level,
         CalculateRiskMetrics(NetCashFlow(rows), CumulativeCash(rows)),
         AnalyzeInvestmentOpportunities(NetCashFlow(rows), CumulativeCash(rows),
                                        GetRiskParameters(risk_level)),
         ForecastCashFlow(rows, lapack))

\* _prepare_ml_data: the rows of df_ml, or the KeyError of a missing column
RowHasNaN(r) ==
  /\ "rolling_7d_std" \in DOMAIN r
  /\ (IsNaN(r.rolling_7d_std.v) \/ IsNaN(r.rolling_7d_avg) \/ IsNaN(r.rolling_30d_avg)
      \/ IsNaN(r.cash_flow_volatility.a))

PrepareMLData(rows) ==
  IF Len(rows) = 0 THEN Raise("KeyError", <<"date">>)
  ELSE IF ~InSeq("net_cash_flow", DataCols(rows)) THEN Raise("KeyError", <<"net_cash_flow">>)
  ELSE Return(SelectSeq([i \in 1..Len(rows) |-> i],
                        LAMBDA i : UsableRow(i) /\ ~RowHasNaN(rows[i])))

\* r2_score above 0.7 or not, a property of the fitted forest
R2Outcomes == {"high", "low"}

RowHasInf(r) ==
  "cash_flow_volatility" \in DOMAIN r /\ r.cash_flow_volatility.a = PosInf

\* _train_prediction_model: train_test_split(test_size=0.2) keeps ceil(0.2*m) rows
\* for the test and raises when none is left to train on; the forest rejects an
\* infinite feature; r2_score of fewer than two test rows is nan
TrainPredictionModel(rows, idx, r2) ==
  LET m == Len(idx)
      n_test == (m + 4) \div 5
      n_train == m - n_test
  IN IF n_train = 0
     THEN Raise("ValueError", <<"the resulting train set will be empty">>)
     ELSE IF \E k \in 1..m : RowHasInf(rows[idx[k]])
     THEN Raise("ValueError", <<"Input X contains infinity">>)
     ELSE Return(
       [model_type |-> "RandomForest",
        accuracy |-> [r2 |-> IF n_test < 2 THEN "nan" ELSE r2],
        training_samples |-> n_train,
        test_samples |-> n_test])

\* _run_scenario_analysis
RunScenarioAnalysis(net) ==
  LET base_cash_flow == Mean(net)
      base_volatility == Std(net)
      Scenario(cf, vol, p) ==
        [cash_flow_multiplier |-> cf,
         volatility_multiplier |-> vol,
         expected_cash_flow |-> Mul(base_cash_flow, cf),
         expected_volatility |-> SurdScale(base_volatility, vol),
         probability |-> p]
  IN [optimistic |-> Scenario(Rat(12, 10), Rat(8, 10), Rat(25, 100)),
      base |-> Scenario(R(1), R(1), Rat(50, 100)),
      pessimistic |-> Scenario(Rat(8, 10), Rat(12, 10), Rat(25, 100))]

\* the catalog with equity funds returning 20 %
InvestmentsHighEquity ==
  [cash_reserve |-> [return |-> Rat(1, 100), risk |-> Rat(1, 100), liquidity |-> R(1)],
   money_market |-> [return |-> Rat(25, 1000), risk |-> Rat(2, 100), liquidity |-> Rat(9, 10)],
   short_term_bonds |-> [return |-> Rat(4, 100), risk |-> Rat(5, 100), liquidity |-> Rat(7, 10)],
   equity_funds |-> [return |-> Rat(20, 100), risk |-> Rat(15, 100), liquidity |-> Rat(5, 10)]]

Investments ==
  [cash_reserve |-> [return |-> Rat(1, 100), risk |-> Rat(1, 100), liquidity |-> R(1)],
   money_market |-> [return |-> Rat(25, 1000), risk |-> Rat(2, 100), liquidity |-> Rat(9, 10)],
   short_term_bonds |-> [return |-> Rat(4, 100), risk |-> Rat(5, 100), liquidity |-> Rat(7, 10)],
   equity_funds |-> [return |-> Rat(8, 100), risk |-> Rat(15, 100), liquidity |-> Rat(5, 10)]]

InvestmentNames == <<"cash_reserve", "money_market", "short_term_bonds", "equity_funds">>

\* an allocation whose equity_funds weight repeats the money_market weight
AllocationRepeated(a, b, c, d) ==
  [cash_reserve |-> a, money_market |-> b, short_term_bonds |-> c, equity_funds |-> b]

\* the allocation dict of one risk level
Allocation(a, b, c, d) ==
  [cash_reserve |-> a, money_market |-> b, short_term_bonds |-> c, equity_funds |-> d]

\* _optimize_portfolio_allocation
OptimizePortfolioAllocation(net, risk_level) ==
  LET surplus_cash == SumInt(SelectSeq(net, LAMBDA y : y > 0))
      allocation ==
        IF risk_level = "conservative"
        THEN Allocation(Rat(6, 10), Rat(3, 10), Rat(1, 10), Zero)
        ELSE IF risk_level = "moderate"
        THEN Allocation(Rat(4, 10), Rat(3, 10), Rat(2, 10), Rat(1, 10))
        ELSE Allocation(Rat(2, 10), Rat(2, 10), Rat(3, 10), Rat(3, 10))
      Weighted(field) ==
        SumRRange([k \in 1..Len(InvestmentNames) |->
                     Mul(allocation[InvestmentNames[k]], Investments[InvestmentNames[k]][field])],
                  1, Len(InvestmentNames))
  IN [total_surplus |-> R(surplus_cash),
      allocation |-> allocation,
      expected_return |-> Weighted("return"),
      expected_risk |-> Weighted("risk"),
      investment_options |-> Investments]

\* the scenarios with the volatility impact of liquidity_crisis on market_crash
StressScenariosSameVolatility ==
  <<[name |-> "market_crash", cash_flow_impact |-> Rat(-5, 10),
     volatility_impact |-> Rat(15, 10), probability |-> Rat(5, 100)],
    [name |-> "liquidity_crisis", cash_flow_impact |-> Rat(-3, 10),
     volatility_impact |-> Rat(15, 10), probability |-> Rat(10, 100)],
    [name |-> "operational_disruption", cash_flow_impact |-> Rat(-4, 10),
     volatility_impact |-> Rat(18, 10), probability |-> Rat(8, 100)]>>

\* stress scenarios whose probabilities partition the outcomes
StressScenariosExhaustive ==
  <<[name |-> "market_crash", cash_flow_impact |-> Rat(-5, 10),
     volatility_impact |-> R(2), probability |-> Rat(5, 100)],
    [name |-> "liquidity_crisis", cash_flow_impact |-> Rat(-3, 10),
     volatility_impact |-> Rat(15, 10), probability |-> Rat(10, 100)],
    [name |-> "operational_disruption", cash_flow_impact |-> Rat(-4, 10),
     volatility_impact |-> Rat(18, 10), probability |-> Rat(85, 100)]>>

\* stress_scenarios of _stress_test_scenarios
StressScenarios ==
  <<[name |-> "market_crash", cash_flow_impact |-> Rat(-5, 10),
     volatility_impact |-> R(2), probability |-> Rat(5, 100)],
    [name |-> "liquidity_crisis", cash_flow_impact |-> Rat(-3, 10),
     volatility_impact |-> Rat(15, 10), probability |-> Rat(10, 100)],
    [name |-> "operational_disruption", cash_flow_impact |-> Rat(-4, 10),
     volatility_impact |-> Rat(18, 10), probability |-> Rat(8, 100)]>>

\* Python's max over a list: the first element no later one exceeds
RECURSIVE MaxSurdTo(_, _)
MaxSurdTo(xs, k) ==
  IF k = 1 THEN xs[1]
  ELSE LET m == MaxSurdTo(xs, k - 1) IN IF SurdLt(m, xs[k]) THEN xs[k] ELSE m

\* _stress_test_scenarios
StressTestScenarios(net) ==
  LET base_cash_flow == Mean(net)
      base_volatility == Std(net)
      Requirement(params) ==
        LET stressed_cash_flow == Mul(base_cash_flow, Add(R(1), params.cash_flow_impact))
            stressed_volatility == SurdScale(base_volatility, params.volatility_impact)
        IN [required_reserve |->
              SurdShift(SurdScale(stressed_volatility, R(2)), AbsR(stressed_cash_flow)),
            cash_flow_impact |-> stressed_cash_flow,
            volatility_impact |-> stressed_volatility,
            probability |-> params.probability]
      reserve_requirements ==
        [name \in {StressScenarios[k].name : k \in 1..Len(StressScenarios)} |->
           Requirement(CHOOSE p \in {StressScenarios[k] : k \in 1..Len(StressScenarios)} :
                         p.name = name)]
      reserves == [k \in 1..Len(StressScenarios) |->
                     reserve_requirements[StressScenarios[k].name].required_reserve]
      weighted == [k \in 1..Len(StressScenarios) |->
                     SurdScale(reserves[k], StressScenarios[k].probability)]
  IN [scenarios |-> reserve_requirements,
      max_reserve_requirement |-> MaxSurdTo(reserves, Len(reserves)),
      expected_reserve_requirement |->
        Surd(SumRRange([k \in 1..Len(weighted) |-> weighted[k].a], 1, Len(weighted)),
             SumRRange([k \in 1..Len(weighted) |-> weighted[k].b], 1, Len(weighted)),
             base_volatility.v)]

\* _generate_comprehensive_recommendations
GenerateComprehensiveRecommendations(prediction_model, scenarios, portfolio_opt, stress_test) ==
  (IF prediction_model.accuracy.r2 = "high"
   THEN <<Advice("High prediction accuracy - consider automated cash flow forecasting")>>
   ELSE <<Advice("Low prediction accuracy - improve data quality and feature engineering")>>)
  \o (IF Lt(Rat(5, 100), portfolio_opt.expected_return)
      THEN <<AdviceOf("High return potential: expected return",
                      SurdOf(portfolio_opt.expected_return))>>
      ELSE <<>>)
  \o <<AdviceOf("Maintain reserve of $ for extreme scenarios",
                stress_test.max_reserve_requirement)>>
  \o (IF Lt(scenarios.pessimistic.expected_cash_flow, Zero)
      THEN <<Advice("Prepare for negative cash flow scenarios")>>
      ELSE <<>>)

\* _comprehensive_optimization once the model is trained and the analyses have run
ComprehensiveResult(risk_level, prediction_model, scenarios, portfolio_opt, stress_test) ==
  Return(
    [strategy |-> "comprehensive",
     risk_level |-> risk_level,
     prediction_model |-> prediction_model,
     scenarios |-> scenarios,
     portfolio_optimization |-> portfolio_opt,
     stress_testing |-> stress_test,
     recommendations |->
       GenerateComprehensiveRecommendations(prediction_model, scenarios, portfolio_opt,
                                            stress_test)])

\* df_ml['net_cash_flow'], for the rows idx of df_ml
MLNetCashFlow(rows, idx) == List([k \in 1..Len(idx) |-> rows[idx[k]].net_cash_flow])

\* _comprehensive_optimization
ComprehensiveOptimization(rows, risk_level, r2) ==
  LET df_ml == PrepareMLData(rows)
      prediction_model == TrainPredictionModel(rows, df_ml.value, r2)
      net == MLNetCashFlow(rows, df_ml.value)
  IN IF df_ml.raise # "" THEN df_ml
     ELSE IF prediction_model.raise # "" THEN prediction_model
     ELSE ComprehensiveResult(risk_level, prediction_model.value, RunScenarioAnalysis(net),
                              OptimizePortfolioAllocation(net, risk_level),
                              StressTestScenarios(net))

\* optimize_cash_flow, the method and the module-level function
OptimizeCashFlow(rows, risk_level, strategy, lapack, r2) ==
  IF strategy = "basic" THEN BasicOptimization(rows, risk_level)
  ELSE IF strategy = "advanced" THEN AdvancedOptimization(rows, risk_level, lapack)
  ELSE IF strategy = "comprehensive" THEN ComprehensiveOptimization(rows, risk_level, r2)
  ELSE Raise("ValueError", <<"Unknown strategy: ", strategy>>)

(***************************************************************************)
(* DataPreprocessor (data_loader.py).                                       *)
(***************************************************************************)
\* the amount left as it is
NoClip(x) == x + 0

\* Series.clip(lower=0)
ClipLower(x) == IF x < 0 THEN 0 ELSE x

\* a cell of the frame of a record list is nan where the record has no such key
IsNull(r, col) == col \notin DOMAIN r

\* Series.fillna(0)
FillNa(r, col) == IF IsNull(r, col) THEN 0 ELSE r[col]

\* clean_data: dates parsed, missing amounts filled with 0, amounts clipped at
\* 0, rows sorted by date
CleanData(rows) ==
  SortValues(List([i \in 1..Len(rows) |->
                     [date |-> ToDatetime(rows[i].date),
                      cash_in |-> ClipLower(FillNa(rows[i], "cash_in")),
                      cash_out |-> ClipLower(FillNa(rows[i], "cash_out"))]]))

\* Timestamp.dayofweek (Monday is 0), Timestamp.quarter, Timestamp.year
DayOfWeek(o) == (o + 3) % 7
QuarterOf(o) == ((MonthOf(o) - 1) \div 3) + 1
YearOf(o) == EpochYear + ((o - 1) \div 365)

\* rolling_7d_std / rolling_7d_avg.abs() with fillna(0)
CashFlowVolatility(var, avg) ==
  IF IsNaN(var) \/ IsNaN(avg) THEN SurdOf(Zero)
  ELSE IF IsZero(avg) THEN (IF IsZero(var) THEN SurdOf(Zero) ELSE SurdOf(PosInf))
  ELSE Surd(Zero, Div(R(1), AbsR(avg)), var)

\* add_features, as records (DataFrame.to_dict(orient='records'))
AddFeatures(df) ==
  LET net == NetCashFlow(df)
      cum == CumSum(net)
      sq == CumSum(Squares(net))
  IN List([i \in 1..Len(df) |->
        [date |-> Strftime(df[i].date),
         cash_in |-> df[i].cash_in,
         cash_out |-> df[i].cash_out,
         net_cash_flow |-> net[i],
         cumulative_cash |-> cum[i],
         day_of_week |-> DayOfWeek(df[i].date),
         month |-> MonthOf(df[i].date),
         quarter |-> QuarterOf(df[i].date),
         year |-> YearOf(df[i].date),
         rolling_7d_avg |-> RollingMeanAt(cum, 7, 1, i),
         rolling_30d_avg |-> RollingMeanAt(cum, 30, 1, i),
         rolling_7d_std |-> Surd(Zero, R(1), RollingVarAt(cum, sq, 7, 1, i)),
         cash_flow_volatility |->
           CashFlowVolatility(RollingVarAt(cum, sq, 7, 1, i), RollingMeanAt(cum, 7, 1, i))]])

(***************************************************************************)
(* load_data (data_loader.py). A file is its extension, its columns, its    *)
(* rows and the dtype of its date column: pd.read_csv leaves dates as       *)
(* strings (object), pd.read_excel returns date cells as datetime64. Every  *)
(* date of the model parses.                                                *)
(***************************************************************************)
File(extension, columns, rows, date_dtype) == [extension |-> extension, columns |-> columns, rows |-> rows, date_dtype |-> date_dtype]

Files(rows) ==
  {File("csv", InputCols, rows, "object"),
   File("xlsx", InputCols, rows, "datetime64"),
   File("txt", InputCols, rows, "object"),
   File("csv", <<"date", "cash_in">>, rows, "object")}

\* validate_required_columns: the missing columns
ValidateRequiredColumns(columns) == SelectSeq(InputCols, LAMBDA c : ~InSeq(c, columns))

\* validate_data_types: the errors; the amount columns of a frame without rows
\* are of dtype object
ValidateDataTypes(df) ==
  IF Len(df) = 0
  THEN <<"cash_in column is not numeric", "cash_out column is not numeric">>
  ELSE <<>>

\* df['date'].min() of a parsed date column
FirstDate(df) ==
  CHOOSE d \in {df[i].date : i \in 1..Len(df)} :
    \A i \in 1..Len(df) : d <= df[i].date

\* the date column of a frame, parsed
Dates(df) == List([i \in 1..Len(df) |-> [date |-> ToDatetime(df[i].date)]])

\* validate_data_quality on a frame with rows: the difference of two dates is
\* taken on the column as it was read
ValidateDataQuality(df, date_dtype) ==
  IF date_dtype = "object"
  THEN Raise("TypeError", <<"unsupported operand type(s) for -: 'str' and 'str'">>)
  ELSE Return(
    [total_records |-> Len(df),
     missing_values |-> [c \in {"date", "cash_in", "cash_out"} |->
                           Len(SelectSeq(df, LAMBDA r : IsNull(r, c)))],
     negative_cash_flows |->
       Len(SelectSeq(df, LAMBDA r : ~IsNull(r, "cash_in") /\ r.cash_in < 0))
       + Len(SelectSeq(df, LAMBDA r : ~IsNull(r, "cash_out") /\ r.cash_out < 0)),
     zero_records |->
       Len(SelectSeq(df, LAMBDA r : /\ ~IsNull(r, "cash_in") /\ ~IsNull(r, "cash_out")
                                    /\ r.cash_in = 0 /\ r.cash_out = 0)),
     date_range |-> [start |-> Strftime(FirstDate(Dates(df))),
                     end |-> Strftime(LastDate(Dates(df))),
                     days |-> LastDate(Dates(df)) - FirstDate(Dates(df))]])

\* np.abs((x - mean) / std) > 3, false on nan
ZScoreAbove3(x, mean, var) ==
  /\ IsFinite(var)
  /\ var.n > 0
  /\ Lt(Mul(R(9), var), Mul(Sub(R(x), mean), Sub(R(x), mean)))

\* np.abs((x - mean) / std)
ZScore(x, mean, var) ==
  IF IsNaN(var) \/ (IsZero(var) /\ R(x) = mean) THEN SurdNaN
  ELSE IF IsZero(var) THEN SurdOf(PosInf)
  ELSE Surd(Zero, Div(AbsR(Sub(R(x), mean)), var), var)

\* detect_anomalies on the records add_features returned
DetectAnomalies(df) ==
  List([i \in 1..Len(df) |->
          df[i] @@ [is_anomaly |-> ZScoreAbove3(df[i].net_cash_flow,
                                                Mean(NetCashFlow(df)), VarS(NetCashFlow(df))),
                    anomaly_score |-> ZScore(df[i].net_cash_flow,
                                             Mean(NetCashFlow(df)), VarS(NetCashFlow(df)))]])

\* the float class of df['cash_flow_volatility'].mean()
VolatilityMeanClass(df) ==
  IF Len(df) = 0 THEN "nan"
  ELSE IF \E i \in 1..Len(df) : ~SurdFinite(df[i].cash_flow_volatility) THEN "inf"
  ELSE IF \A i \in 1..Len(df) : SurdIsZero(df[i].cash_flow_volatility) THEN "zero"
  ELSE "pos"

\* the preprocess branch of load_data on the result built so far
LoadPreprocessed(result_, columns, df_anomaly) ==
  [success |-> TRUE,
   data |-> df_anomaly,
   metadata |-> result_.metadata @@
     [processed_rows |-> Len(df_anomaly),
      features_added |-> IF Len(df_anomaly) = 0 THEN {}
                         ELSE DOMAIN df_anomaly[1] \ {columns[k] : k \in 1..Len(columns)}],
   summary_stats |->
     [total_cash_in |-> R(SumInt([i \in 1..Len(df_anomaly) |-> df_anomaly[i].cash_in])),
      total_cash_out |-> R(SumInt([i \in 1..Len(df_anomaly) |-> df_anomaly[i].cash_out])),
      net_cash_flow |-> R(SumInt(NetCashFlow(df_anomaly))),
      avg_daily_cash_flow |-> Mean(NetCashFlow(df_anomaly)),
      cash_flow_volatility |-> VolatilityMeanClass(df_anomaly),
      anomalies_detected |-> Len(SelectSeq(df_anomaly, LAMBDA r : r.is_anomaly))]]
  @@ result_

\* the except branch of load_data
LoadFailure(error) == [success |-> FALSE, error |-> error]

\* load_data from the preprocess branch on; empty is what the rolling
\* aggregations of pandas do on a frame without rows: "ok" or "raises"
LoadPreprocess(result_, file, preprocess, empty) ==
  IF ~preprocess THEN result_
  ELSE IF ~InSeq("cash_out", file.columns) THEN LoadFailure(<<"'cash_out'">>)
  ELSE IF Len(file.rows) = 0 /\ empty = "raises" THEN LoadFailure(<<"No numeric types to aggregate">>)
  ELSE LoadPreprocessed(result_, file.columns, DetectAnomalies(AddFeatures(CleanData(file.rows))))

\* load_data from the validation on
LoadValidated(result_, file, validate, preprocess, empty, quality_report) ==
  IF ~validate THEN LoadPreprocess(result_, file, preprocess, empty)
  ELSE IF Len(ValidateRequiredColumns(file.columns)) > 0
  THEN [success |-> FALSE,
        error |-> <<"Missing required columns: ">> \o ValidateRequiredColumns(file.columns)]
       @@ result_
  ELSE IF Len(ValidateDataTypes(file.rows)) > 0
  THEN [success |-> FALSE, error |-> <<"Data type errors: ">> \o ValidateDataTypes(file.rows)]
       @@ result_
  ELSE IF quality_report.raise # "" THEN LoadFailure(quality_report.msg)
  ELSE LoadPreprocess([quality_report |-> quality_report.value] @@ result_, file, preprocess,
                      empty)

\* load_data(file, validate, preprocess)
LoadData(file, validate, preprocess, empty) ==
  IF file.extension \notin {"csv", "xlsx", "xls"}
  THEN LoadFailure(<<"Unsupported file format: ", file.extension>>)
  ELSE LoadValidated([success |-> TRUE,
                      data |-> file.rows,
                      metadata |-> [file_type |-> file.extension,
                                    original_rows |-> Len(file.rows),
                                    original_columns |-> file.columns]],
                     file, validate, preprocess, empty,
                     IF Len(file.rows) = 0 THEN Return(NoValue)
                     ELSE ValidateDataQuality(file.rows, file.date_dtype))

(***************************************************************************)
(* The request handlers of app.py.                                          *)
(***************************************************************************)
Response(status, body) == [status |-> status, body |-> body]

\* an error body; a message is the sequence of its text and of the values
\* formatted into it
Failure(text) == [success |-> FALSE, error |-> <<text>>]
Invalid(text, allowed) == [success |-> FALSE, error |-> <<text>> \o allowed]

valid_methods == <<"simple", "advanced", "ensemble", "ml">>
valid_strategies == <<"basic", "advanced", "comprehensive">>
valid_risk_levels == <<"conservative", "moderate", "aggressive">>

\* jsonify of a projection, or the except branch of the handler
ProjectionResponse(projection) ==
  IF projection.raise # "" THEN Response(500, Failure("Failed to generate projection"))
  ELSE Response(200, [success |-> TRUE, projection |-> projection.value])

\* POST /api/v1/liquidity-projection
LiquidityProjectionHandler(has_data, rows, method, horizon, lapack, draws, preds) ==
  IF ~has_data THEN Response(400, Failure("No data provided"))
  ELSE IF ~InSeq(method, valid_methods)
  THEN Response(400, Invalid("Invalid method. Valid methods: ", valid_methods))
  ELSE ProjectionResponse(
         GenerateLiquidityProjection(rows, method, horizon, lapack, draws, preds))

\* jsonify of an optimization, or the except branch of the handler
OptimizationResponse(optimization_result) ==
  IF optimization_result.raise # ""
  THEN Response(500, Failure("Failed to perform optimization"))
  ELSE Response(200, [success |-> TRUE, optimization |-> optimization_result.value])

\* POST /api/v1/optimize
OptimizeHandler(has_data, rows, strategy, risk_level, lapack, r2) ==
  IF ~has_data THEN Response(400, Failure("No data provided"))
  ELSE IF ~InSeq(strategy, valid_strategies)
  THEN Response(400, Invalid("Invalid strategy. Valid strategies: ", valid_strategies))
  ELSE IF ~InSeq(risk_level, valid_risk_levels)
  THEN Response(400, Invalid("Invalid risk level. Valid levels: ", valid_risk_levels))
  ELSE OptimizationResponse(OptimizeCashFlow(rows, risk_level, strategy, lapack, r2))

\* jsonify of an analysis, or the except branch of the handler
AnalysisResponse(projection, optimization, summary) ==
  IF projection.raise # "" \/ optimization.raise # ""
  THEN Response(500, Failure("Failed to perform analysis"))
  ELSE Response(200,
         [success |-> TRUE,
          analysis |->
            [projection |-> projection.value,
             optimization |-> optimization.value,
             summary |-> summary]])

\* POST /api/v1/analyze
AnalyzeHandler(has_data, rows, projection_method, optimization_strategy, risk_level, horizon, lapack, draws, preds, r2) ==
  IF ~has_data THEN Response(400, Failure("No data provided"))
  ELSE AnalysisResponse(
         GenerateLiquidityProjection(rows, projection_method, horizon, lapack, draws, preds),
         OptimizeCashFlow(rows, risk_level, optimization_strategy, lapack, r2),
         [total_records |-> Len(rows),
          projection_horizon |-> horizon,
          risk_level |-> risk_level,
          strategy |-> optimization_strategy,
          method |-> projection_method])

\* n * sum(x*y) - sum(x) * sum(y) over the pairs of two columns: n^2 times
\* their covariance
PairCov(x, y) ==
  Len(x) * SumInt([i \in 1..Len(x) |-> x[i] * y[i]]) - SumInt(x) * SumInt(y)

\* Series.corr is nan without a pair or when either column is constant
CorrDefined(x, y) == Len(x) >= 1 /\ PairCov(x, x) # 0 /\ PairCov(y, y) # 0

\* Series.corr(x, y) > num / den, for a defined correlation and num, den > 0
CorrAbove(x, y, num, den) ==
  /\ PairCov(x, y) > 0
  /\ den * den * PairCov(x, y) * PairCov(x, y) > num * num * PairCov(x, x) * PairCov(y, y)

\* the two columns of Series.autocorr(lag): the series and its shift
Shifted(s, lag) == IF lag >= Len(s) THEN <<>> ELSE SubSeq(s, 1, Len(s) - lag)
Unshifted(s, lag) == IF lag >= Len(s) THEN <<>> ELSE SubSeq(s, lag + 1, Len(s))

SeasonalityLags == 30

\* _detect_seasonality: Python's max keeps its first element when that is nan,
\* and no nan replaces a number
DetectSeasonality(net) ==
  /\ CorrDefined(Unshifted(net, 1), Shifted(net, 1))
  /\ \E lag \in 1..SeasonalityLags :
       /\ CorrDefined(Unshifted(net, lag), Shifted(net, lag))
       /\ CorrAbove(Unshifted(net, lag), Shifted(net, lag), 3, 10)

\* the class of abs(net.corr(pd.Series(range(len(df)))))
TrendStrength(net) ==
  IF ~CorrDefined(net, [i \in 1..Len(net) |-> i - 1]) THEN "nan"
  ELSE IF PairCov(net, [i \in 1..Len(net) |-> i - 1]) = 0 THEN "zero"
  ELSE "pos"

\* _calculate_max_drawdown
CalculateMaxDrawdown(net) == MaxDrawdown(CumSum(net))

\* df['net_cash_flow'].tail(30).mean()
RecentAvg(net) == Rat(SumRange(net, Len(net) - 29, Len(net)), 30)

\* _generate_insights_recommendations
InsightsRecommendations(net) ==
  (IF Lt(Mean(net), Zero)
   THEN <<"Negative average cash flow detected - review expenses and revenue streams">>
   ELSE <<>>)
  \o (IF SurdLt(SurdOf(Mul(AbsR(Mean(net)), Rat(5, 10))), Std(net))
      THEN <<"High cash flow volatility - consider implementing cash flow smoothing strategies">>
      ELSE <<>>)
  \o (IF Len(net) > 30 /\ Lt(Mul(Mean(net), Rat(12, 10)), RecentAvg(net))
      THEN <<"Improving cash flow trend - consider investment opportunities">>
      ELSE IF Len(net) > 30 /\ Lt(RecentAvg(net), Mul(Mean(net), Rat(8, 10)))
      THEN <<"Declining cash flow trend - review business operations">>
      ELSE <<>>)
  \o <<"Monitor cash flow daily for early warning signs",
       "Maintain adequate cash reserves for unexpected expenses",
       "Consider diversifying revenue sources to reduce volatility">>

\* the insights dict of generate_insights
Insights(rows, net) ==
  [cash_flow_summary |->
     [total_cash_in |-> R(SumInt([i \in 1..Len(rows) |-> rows[i].cash_in])),
      total_cash_out |-> R(SumInt([i \in 1..Len(rows) |-> rows[i].cash_out])),
      net_cash_flow |-> R(SumInt(net)),
      avg_daily_cash_flow |-> Mean(net),
      cash_flow_volatility |-> Std(net)],
   trends |->
     [trend_direction |-> IF net[Len(net)] > net[1] THEN "increasing" ELSE "decreasing",
      trend_strength |-> TrendStrength(net),
      seasonality_detected |-> DetectSeasonality(net)],
   risk_indicators |->
     [negative_cash_flow_days |-> Len(SelectSeq(net, LAMBDA y : y < 0)),
      cash_flow_volatility_ratio |->
        IF ~IsZero(Mean(net)) THEN SurdScale(Std(net), Div(R(1), AbsR(Mean(net))))
        ELSE SurdOf(Zero),
      max_drawdown |-> CalculateMaxDrawdown(net)],
   recommendations |-> InsightsRecommendations(net)]

\* whether max_autocorr > 0.3 is a numpy.bool_: Series.autocorr returns
\* np.float64 as soon as the series and its shift share a row, and the plain
\* float nan otherwise; jsonify raises TypeError on a numpy.bool_
NumpyBool(net) == Len(net) >= 2

\* POST /api/v1/insights; an empty record list has no 'date' column
GenerateInsights(has_data, rows) ==
  IF ~has_data THEN Response(400, Failure("No data provided"))
  ELSE IF Len(rows) = 0 \/ NumpyBool(NetCashFlow(rows))
  THEN Response(500, Failure("Failed to generate insights"))
  ELSE Response(200, [success |-> TRUE, insights |-> Insights(rows, NetCashFlow(rows))])

(***************************************************************************)
(* The state machine: data is the record list of the request body; frame    *)
(* holds the historical columns the engine and the optimizer of the last    *)
(* call derived on their DataFrames; result is the last call with its       *)
(* arguments and its outcome. One request is followed from the upload to    *)
(* its response.                                                            *)
(***************************************************************************)
Idle == [call |-> "none"]

NoFrame == [derived |-> {}, net_cash_flow |-> <<>>, cumulative_cash |-> <<>>]

Frames(engine, optimizer) == [engine |-> engine, optimizer |-> optimizer]

\* the columns generate_liquidity_projection leaves on its frame
EngineFrame(rows, method) ==
  IF Len(rows) = 0 \/ ~InSeq(method, valid_methods)
  THEN NoFrame
  ELSE [derived |-> {"net_cash_flow", "cumulative_cash"},
        net_cash_flow |-> NetCashFlow(SortValues(Frame(rows))),
        cumulative_cash |-> CumulativeCash(SortValues(Frame(rows)))]

\* the columns optimize_cash_flow leaves on its frame
OptimizerFrame(rows, strategy) ==
  IF Len(rows) = 0 THEN NoFrame
  ELSE IF strategy = "basic"
  THEN [derived |-> {"net_cash_flow"}, net_cash_flow |-> NetCashFlow(rows),
        cumulative_cash |-> <<>>]
  ELSE IF strategy = "advanced"
  THEN [derived |-> {"net_cash_flow", "cumulative_cash"},
        net_cash_flow |-> NetCashFlow(rows),
        cumulative_cash |-> CumulativeCash(rows)]
  ELSE NoFrame

\* the argument values explored
MethodInputs == {"simple", "advanced", "ensemble", "ml", "bogus"}
StrategyInputs == {"basic", "advanced", "comprehensive", "bogus"}
RiskInputs == {"conservative", "moderate", "aggressive", "bogus"}
AnalyzeMethodInputs == {"simple", "ensemble", "bogus"}
AnalyzeStrategyInputs == {"basic", "comprehensive", "bogus"}
AnalyzeRiskInputs == {"moderate", "bogus"}

NoDraws(horizon) == List([i \in 1..horizon |-> Zero])

\* the random draws one call can make
DrawChoices(rows, method, horizon, lapack) ==
  IF method \in {"advanced", "ensemble"} /\ Len(rows) > 0
  THEN [1..horizon -> DrawValues(SortValues(Frame(rows)), lapack)]
  ELSE {NoDraws(horizon)}

R2Choices(strategy) == IF strategy = "comprehensive" THEN R2Outcomes ELSE {"none"}

\* a generator nothing has drawn from
NoRng == [stream |-> <<>>, pos |-> 0]

Init ==
  /\ data \in InputSeries
  /\ frame = Frames(NoFrame, NoFrame)
  /\ result = Idle
  /\ self = NewEngine
  /\ rng = NoRng
  /\ previous = Idle
  /\ requests = <<>>
  /\ engines = <<>>

\* DataPreprocessor.clean_data then DataPreprocessor.add_features, as load_data
\* chains them; clean_data raises KeyError on a frame without a date column
Preprocess ==
  /\ result = Idle
  /\ IF Len(data) = 0
     THEN /\ result' = [call |-> "clean_data", outcome |-> Raise("KeyError", <<"date">>)]
          /\ data' = data
     ELSE /\ data' = AddFeatures(CleanData(data))
          /\ result' = result
  /\ frame' = frame
  /\ UNCHANGED process

\* AdvancedProjectionEngine(forecast_horizon).generate_liquidity_projection
GenerateProjection ==
  /\ result = Idle
  /\ \E method \in MethodInputs, horizon \in 1..MaxHorizon,
        lapack \in LapackOutcomes(Len(data)) :
       \E draws \in DrawChoices(data, method, horizon, lapack),
          preds \in PredChoices(SortValues(Frame(data)), DataCols(data), horizon) :
         /\ result' =
              [call |-> "generate_liquidity_projection",
               method |-> method, horizon |-> horizon, lapack |-> lapack,
               draws |-> draws,
               outcome |->
                 GenerateLiquidityProjection(data, method, horizon, lapack, draws, preds)]
         /\ frame' = Frames(EngineFrame(data, method), NoFrame)
  /\ data' = data
  /\ UNCHANGED process

\* POST /api/v1/liquidity-projection; a request without a 'data' key is
\* answered before any other key is read
PostLiquidityProjection ==
  /\ result = Idle
  /\ \E has_data \in BOOLEAN :
       \E method \in (IF has_data THEN MethodInputs ELSE {"ensemble"}),
          horizon \in (IF has_data THEN 1..MaxHorizon ELSE {1}),
          lapack \in LapackOutcomes(Len(data)) :
         \E draws \in DrawChoices(data, method, horizon, lapack),
            preds \in PredChoices(SortValues(Frame(data)), DataCols(data), horizon) :
           /\ result' =
                [call |-> "liquidity_projection", has_data |-> has_data,
                 method |-> method, horizon |-> horizon, lapack |-> lapack,
                 draws |-> draws,
                 outcome |->
                   LiquidityProjectionHandler(has_data, data, method, horizon, lapack,
                                              draws, preds)]
           /\ frame' = Frames(IF has_data THEN EngineFrame(data, method) ELSE NoFrame,
                              NoFrame)
  /\ data' = data
  /\ UNCHANGED process

\* optimize_cash_flow(data, risk_level, strategy), the module-level function
OptimizeCall ==
  /\ result = Idle
  /\ \E strategy \in StrategyInputs, risk_level \in RiskInputs,
        lapack \in LapackOutcomes(Len(data)) :
       \E r2 \in R2Choices(strategy) :
         /\ result' =
              [call |-> "optimize_cash_flow",
               strategy |-> strategy, risk_level |-> risk_level, lapack |-> lapack,
               outcome |-> OptimizeCashFlow(data, risk_level, strategy, lapack, r2)]
         /\ frame' = Frames(NoFrame, OptimizerFrame(data, strategy))
  /\ data' = data
  /\ UNCHANGED process

\* POST /api/v1/optimize
PostOptimize ==
  /\ result = Idle
  /\ \E has_data \in BOOLEAN :
       \E strategy \in (IF has_data THEN StrategyInputs ELSE {"comprehensive"}),
          risk_level \in (IF has_data THEN RiskInputs ELSE {"moderate"}),
          lapack \in LapackOutcomes(Len(data)) :
         \E r2 \in R2Choices(strategy) :
           /\ result' =
                [call |-> "optimize", has_data |-> has_data,
                 strategy |-> strategy, risk_level |-> risk_level, lapack |-> lapack,
                 outcome |-> OptimizeHandler(has_data, data, strategy, risk_level, lapack, r2)]
           /\ frame' = Frames(NoFrame,
                              IF has_data /\ InSeq(strategy, valid_strategies)
                                 /\ InSeq(risk_level, valid_risk_levels)
                              THEN OptimizerFrame(data, strategy) ELSE NoFrame)
  /\ data' = data
  /\ UNCHANGED process

\* POST /api/v1/analyze: the optimizer runs only once the projection has returned
PostAnalyze ==
  /\ result = Idle
  /\ \E has_data \in BOOLEAN :
       \E method \in (IF has_data THEN AnalyzeMethodInputs ELSE {"ensemble"}),
          strategy \in (IF has_data THEN AnalyzeStrategyInputs ELSE {"comprehensive"}),
          risk_level \in (IF has_data THEN AnalyzeRiskInputs ELSE {"moderate"}),
          lapack \in LapackOutcomes(Len(data)) :
         \E draws \in DrawChoices(data, method, 1, lapack),
            preds \in PredChoices(SortValues(Frame(data)), DataCols(data), 1),
            r2 \in R2Choices(strategy) :
           /\ result' =
                [call |-> "analyze", has_data |-> has_data,
                 method |-> method, horizon |-> 1, lapack |-> lapack,
                 draws |-> draws, strategy |-> strategy, risk_level |-> risk_level,
                 outcome |-> AnalyzeHandler(has_data, data, method, strategy, risk_level,
                                            1, lapack, draws, preds, r2)]
           /\ frame' =
                IF ~has_data THEN Frames(NoFrame, NoFrame)
                ELSE Frames(EngineFrame(data, method),
                            IF GenerateLiquidityProjection(data, method, 1, lapack, draws,
                                                           preds).raise = ""
                            THEN OptimizerFrame(data, strategy) ELSE NoFrame)
  /\ data' = data
  /\ UNCHANGED process

\* POST /api/v1/insights; insights is the dict the handler built before jsonify
PostInsights ==
  /\ result = Idle
  /\ \E has_data \in BOOLEAN :
       result' = [call |-> "insights", has_data |-> has_data,
                  insights |-> IF ~has_data THEN Return(NoValue)
                               ELSE IF Len(data) = 0 THEN Raise("KeyError", <<"date">>)
                               ELSE Return(Insights(data, NetCashFlow(data))),
                  outcome |-> GenerateInsights(has_data, data)]
  /\ frame' = frame
  /\ data' = data
  /\ UNCHANGED process

\* data is what clean_data and add_features returned
Cleaned == Len(data) > 0 /\ "net_cash_flow" \in DOMAIN data[1]

\* load_data on a file of the records as uploaded
LoadDataCall ==
  /\ result = Idle
  /\ ~Cleaned
  /\ \E file \in Files(data), validate \in BOOLEAN, preprocess \in BOOLEAN, empty \in {"ok", "raises"} :
       /\ (empty = "raises") => (Len(data) = 0 /\ preprocess /\ ~validate /\ file.extension # "txt" /\ InSeq("cash_out", file.columns))
       /\ result' = [call |-> "load_data", file |-> file, validate |-> validate,
                     preprocess |-> preprocess,
                     outcome |-> LoadData(file, validate, preprocess, empty)]
  /\ frame' = frame
  /\ data' = data
  /\ UNCHANGED process

\* _calculate_max_drawdown(df), the helper of app.py, on the frame of the
\* records with its net_cash_flow column
MaxDrawdownCall ==
  /\ result = Idle
  /\ result' = [call |-> "_calculate_max_drawdown",
                outcome |-> IF Len(data) = 0 THEN Raise("KeyError", <<"net_cash_flow">>)
                            ELSE Return(CalculateMaxDrawdown(NetCashFlow(data)))]
  /\ frame' = frame
  /\ data' = data
  /\ UNCHANGED process

Next ==
  \/ Preprocess
  \/ GenerateProjection
  \/ PostLiquidityProjection
  \/ OptimizeCall
  \/ PostOptimize
  \/ PostAnalyze
  \/ PostInsights
  \/ MaxDrawdownCall
  \/ LoadDataCall

Spec == Init /\ [][Next]_vars

(***************************************************************************)
(* Properties of the last call.                                             *)
(***************************************************************************)
\* the last call returned a projection, through the engine or a handler
ProjectionReturned ==
  \/ result.call = "generate_liquidity_projection" /\ result.outcome.raise = ""
  \/ result.call = "liquidity_projection" /\ result.outcome.status = 200
  \/ result.call = "analyze" /\ result.outcome.status = 200

Projection ==
  IF result.call = "generate_liquidity_projection" THEN result.outcome.value
  ELSE IF result.call = "liquidity_projection" THEN result.outcome.body.projection
  ELSE result.outcome.body.analysis.projection

\* the last call returned an optimization, through the optimizer or a handler
OptimizationReturned ==
  \/ result.call = "optimize_cash_flow" /\ result.outcome.raise = ""
  \/ result.call = "optimize" /\ result.outcome.status = 200
  \/ result.call = "analyze" /\ result.outcome.status = 200

Optimization ==
  IF result.call = "optimize_cash_flow" THEN result.outcome.value
  ELSE IF result.call = "optimize" THEN result.outcome.body.optimization
  ELSE result.outcome.body.analysis.optimization

\* the last call read a projection method, or a risk level, from its arguments
MethodGiven ==
  \/ result.call = "generate_liquidity_projection"
  \/ result.call \in {"liquidity_projection", "analyze"} /\ result.has_data

RiskLevelGiven ==
  \/ result.call = "optimize_cash_flow"
  \/ result.call \in {"optimize", "analyze"} /\ result.has_data

\* a message lists the allowed values when each of them is formatted into it
Lists(message, allowed) == \A k \in 1..Len(allowed) : InSeq(allowed[k], message)

\* the number of distinct values of a column
DistinctValues(s) == Cardinality({s[i] : i \in 1..Len(s)})

\* each step of an ensemble projection blends the three values it reports with
\* 0.2, 0.3 and 0.5, and these are the flows of the three projections given
BlendsSubProjections(projection, simple_proj, advanced_proj, ml_proj) ==
  /\ simple_proj.raise = ""
  /\ advanced_proj.raise = ""
  /\ ml_proj.raise = ""
  /\ \A i \in 1..Len(projection.projections) :
       /\ projection.projections[i].net_cash_flow =
            Add(Add(Mul(projection.projections[i].simple_projection, Rat(2, 10)),
                    Mul(projection.projections[i].advanced_projection, Rat(3, 10))),
                Mul(projection.projections[i].ml_projection, Rat(5, 10)))
       /\ projection.projections[i].simple_projection =
            simple_proj.value.projections[i].net_cash_flow
       /\ projection.projections[i].advanced_projection =
            advanced_proj.value.projections[i].net_cash_flow
       /\ projection.projections[i].ml_projection =
            ml_proj.value.projections[i].net_cash_flow

\* C1: whenever method 'ensemble' returns a projection, every step's
\* net_cash_flow is 0.2 x simple_projection + 0.3 x advanced_projection + 0.5 x
\* ml_projection of the same step, and these three values are the per-step
\* net_cash_flow of the simple, advanced (same random draws) and ml projections
\* of the same series. Values are compared as float64 values: on a one-row
\* series whose fit yields nan, all four are nan.
EnsembleIsWeightedBlend ==
  (ProjectionReturned /\ result.method = "ensemble") =>
    BlendsSubProjections(
      Projection,
      GenerateLiquidityProjection(data, "simple", result.horizon, result.lapack,
                                  result.draws, NoPreds),
      GenerateLiquidityProjection(data, "advanced", result.horizon, result.lapack,
                                  result.draws, NoPreds),
      GenerateLiquidityProjection(data, "ml", result.horizon, result.lapack,
                                  result.draws, NoPreds))

\* an ensemble projection of two steps or more whose simple and advanced values
\* differ at a step, all of them finite
EnsembleBlendReached ==
  /\ ProjectionReturned
  /\ result.method = "ensemble"
  /\ Len(Projection.projections) >= 2
  /\ \E i \in 1..Len(Projection.projections) :
       /\ IsFinite(Projection.projections[i].net_cash_flow)
       /\ ~IsZero(Projection.projections[i].net_cash_flow)
       /\ Projection.projections[i].simple_projection #
            Projection.projections[i].advanced_projection

\* the rows of the series of the last call left after dropping every row with an
\* undefined lag or rolling feature
UsableRows == Len(PrepareMLFeatures(SortValues(Frame(data))))

\* the last call asked the engine, directly or through /liquidity-projection,
\* for the 'ml' projection
MLRequested ==
  /\ result.call \in {"generate_liquidity_projection", "liquidity_projection"}
  /\ MethodGiven
  /\ result.method = "ml"

\* C2, as amended: method 'ml' on a series of at least 2 records with fewer than
\* 30 usable rows does not raise and returns exactly the simple projection of
\* the series, tagged 'simple'.
MLFallsBackOnShortHistory ==
  (MLRequested /\ Len(data) >= 2 /\ UsableRows < 30) =>
    /\ ProjectionReturned
    /\ Projection.method = "simple"
    /\ Return(Projection) =
         SimpleProjection(SortValues(Frame(data)), result.horizon, result.lapack)

\* 'ml' answered with the simple projection on a series with 29 usable rows
MLFallbackReached ==
  /\ MLRequested
  /\ UsableRows = 29
  /\ ProjectionReturned
  /\ Projection.method = "simple"
  /\ Len(Projection.projections) >= 2

\* C2, as stated: method 'ml' on a series with fewer than 30 usable rows does not
\* raise and returns exactly the simple projection of the series, tagged
\* 'simple'.
MLFallsBackToSimple ==
  (/\ result.call = "generate_liquidity_projection"
   /\ result.method = "ml"
   /\ Len(PrepareMLFeatures(SortValues(Frame(data)))) < 30)
  => /\ result.outcome.raise = ""
     /\ result.outcome.value.method = "simple"
     /\ result.outcome =
          SimpleProjection(SortValues(Frame(data)), result.horizon, result.lapack)

\* C3: a projection request, on a series of at least one record, with a method
\* outside {simple, advanced, ensemble, ml} fails with a validation error
\* listing the four methods, on every entry path: the engine raises it, the two
\* endpoints answer 400 with it.
InvalidMethodIsValidationError ==
  (MethodGiven /\ Len(data) > 0 /\ ~InSeq(result.method, valid_methods)) =>
    IF result.call = "generate_liquidity_projection"
    THEN /\ result.outcome.raise = "ValueError"
         /\ Lists(result.outcome.msg, valid_methods)
    ELSE /\ result.outcome.status = 400
         /\ Lists(result.outcome.body.error, valid_methods)

\* C4: an optimization, of a series of at least 2 records, with a risk level
\* outside {conservative, moderate, aggressive} fails with a validation error
\* listing the three levels and returns no optimization.
InvalidRiskLevelIsValidationError ==
  (RiskLevelGiven /\ Len(data) >= 2 /\ ~InSeq(result.risk_level, valid_risk_levels)) =>
    /\ ~OptimizationReturned
    /\ IF result.call = "optimize_cash_flow"
       THEN /\ result.outcome.raise = "ValueError"
            /\ Lists(result.outcome.msg, valid_risk_levels)
       ELSE /\ result.outcome.status = 400
            /\ Lists(result.outcome.body.error, valid_risk_levels)

\* the last call returned the advanced tier's risk metrics
RiskMetricsReturned == OptimizationReturned /\ Optimization.strategy = "advanced"

\* C5, as amended: in every returned set of risk metrics var_99 <= var_95, and
\* var_95 <= mean(net_cash_flow) when the series has at most 20 records.
PercentilesOrdered ==
  RiskMetricsReturned =>
    /\ Leq(Optimization.risk_metrics.var_99, Optimization.risk_metrics.var_95)
    /\ (Len(data) <= 20 =>
          Leq(Optimization.risk_metrics.var_95, Mean(NetCashFlow(data))))

\* risk metrics of a series of 20 records with two distinct values, var_99
\* strictly below var_95
PercentilesOrderedReached ==
  /\ RiskMetricsReturned
  /\ Len(data) = 20
  /\ DistinctValues(NetCashFlow(data)) > 1
  /\ Lt(Optimization.risk_metrics.var_99, Optimization.risk_metrics.var_95)
  /\ Leq(Optimization.risk_metrics.var_95, Mean(NetCashFlow(data)))

\* C5, as stated: for every series with more than one distinct net flow,
\* var_99 <= var_95 <= mean(net_cash_flow).
PercentilesBelowMean ==
  (RiskMetricsReturned /\ DistinctValues(NetCashFlow(data)) > 1) =>
    /\ Leq(Optimization.risk_metrics.var_99, Optimization.risk_metrics.var_95)
    /\ Leq(Optimization.risk_metrics.var_95, Mean(NetCashFlow(data)))

\* the last call returned the comprehensive tier's stress test
StressTestReturned == OptimizationReturned /\ Optimization.strategy = "comprehensive"

\* |cf x mean| + 2 x (vol x volatility), for the mean and the volatility
\* sqrt(volatility.v) of the series
ReserveOf(mean, volatility, cf, vol) ==
  Surd(Mul(AbsR(mean), cf), Mul(volatility.b, Mul(R(2), vol)), volatility.v)

\* volatility > 0.2 x |mean|
VolatilityDominates(mean, volatility) ==
  SurdLt(SurdOf(Mul(AbsR(mean), Rat(2, 10))), volatility)

\* C6, as amended: in every returned stress test the required reserve of
\* market_crash is 0.5 x |mean| + 4 x volatility, that of liquidity_crisis is
\* 0.7 x |mean| + 3 x volatility, and the first is strictly greater exactly when
\* volatility > 0.2 x |mean|; mean and volatility are those of the series the
\* scenarios are computed on, as the base scenario reports them.
StressReserveOrder ==
  StressTestReturned =>
    /\ Optimization.stress_testing.scenarios.market_crash.required_reserve =
         ReserveOf(Optimization.scenarios.base.expected_cash_flow,
                   Optimization.scenarios.base.expected_volatility, Rat(5, 10), R(2))
    /\ Optimization.stress_testing.scenarios.liquidity_crisis.required_reserve =
         ReserveOf(Optimization.scenarios.base.expected_cash_flow,
                   Optimization.scenarios.base.expected_volatility, Rat(7, 10), Rat(15, 10))
    /\ SurdLt(Optimization.stress_testing.scenarios.liquidity_crisis.required_reserve,
              Optimization.stress_testing.scenarios.market_crash.required_reserve)
       <=> VolatilityDominates(Optimization.scenarios.base.expected_cash_flow,
                               Optimization.scenarios.base.expected_volatility)

\* a stress test of a series of positive volatility where market_crash requires
\* the greater reserve
StressReserveOrderReached ==
  /\ StressTestReturned
  /\ SurdLt(SurdOf(Zero), Optimization.scenarios.base.expected_volatility)
  /\ SurdLt(Optimization.stress_testing.scenarios.liquidity_crisis.required_reserve,
            Optimization.stress_testing.scenarios.market_crash.required_reserve)

\* C6, as stated: whenever the volatility of the series is positive, the
\* required reserve of market_crash strictly exceeds that of liquidity_crisis.
MarketCrashReserveExceeds ==
  (StressTestReturned
   /\ SurdLt(SurdOf(Zero), Optimization.scenarios.base.expected_volatility)) =>
    SurdLt(Optimization.stress_testing.scenarios.liquidity_crisis.required_reserve,
           Optimization.stress_testing.scenarios.market_crash.required_reserve)

\* C7: optimize_cash_flow with strategy 'comprehensive' on at least 60 daily
\* records that carry only date, cash_in and cash_out returns, without raising,
\* a bundle tagged 'comprehensive' with the model summary, the scenarios, the
\* portfolio allocation, the stress test and the recommendations.
ComprehensiveCompletesOnBareRecords ==
  (/\ result.call = "optimize_cash_flow"
   /\ result.strategy = "comprehensive"
   /\ InSeq(result.risk_level, valid_risk_levels)
   /\ Len(data) >= 60
   /\ DataCols(data) = InputCols)
  => /\ result.outcome.raise = ""
     /\ result.outcome.value.strategy = "comprehensive"
     /\ {"prediction_model", "scenarios", "portfolio_optimization", "stress_testing",
         "recommendations"} \subseteq DOMAIN result.outcome.value

\* C8: for a series of at least 2 records, no value of a returned projection or
\* optimization is nan or infinite: the projected flows, the advanced tier's
\* avg_volatility, volatility_trend and max_drawdown, and the diagnostics
\* trend_strength, seasonal_strength and variance_reduction.
ResultsAreFinite ==
  Len(data) >= 2 =>
    /\ ProjectionReturned =>
         /\ \A i \in 1..Len(Projection.projections) :
              /\ IsFinite(Projection.projections[i].net_cash_flow)
              /\ IsFinite(Projection.projections[i].cumulative_cash)
         /\ (Projection.method = "advanced" =>
               /\ ClassFinite(Projection.decomposition.trend_strength)
               /\ ClassFinite(Projection.decomposition.seasonal_strength))
         /\ (Projection.method = "ensemble" =>
               IsFinite(Projection.ensemble_metrics.variance_reduction))
    /\ RiskMetricsReturned =>
         /\ SurdFinite(Optimization.risk_metrics.avg_volatility)
         /\ SurdFinite(Optimization.risk_metrics.volatility_trend)
         /\ IsFinite(Optimization.risk_metrics.max_drawdown)

\* cum holds the running sums of net
RunningSums(cum, net) ==
  /\ Len(cum) = Len(net)
  /\ \A i \in 1..Len(net) : cum[i] = SumRange(net, 1, i)

\* net holds cash_in - cash_out of the rows
NetOf(net, rows) ==
  /\ Len(net) = Len(rows)
  /\ \A j \in 1..Len(rows) : net[j] = rows[j].cash_in - rows[j].cash_out

\* C9: wherever the historical series is derived (on the engine's frame for the
\* simple, advanced and ml projections, on the advanced optimizer's frame, and
\* in the records add_features returns) cumulative_cash[i] is the sum of
\* net_cash_flow[j] over j <= i, with net_cash_flow[j] = cash_in[j] - cash_out[j].
CumulativeIsRunningSum ==
  /\ "cumulative_cash" \in frame.engine.derived =>
       /\ NetOf(frame.engine.net_cash_flow, SortValues(Frame(data)))
       /\ RunningSums(frame.engine.cumulative_cash, frame.engine.net_cash_flow)
  /\ "cumulative_cash" \in frame.optimizer.derived =>
       /\ NetOf(frame.optimizer.net_cash_flow, data)
       /\ RunningSums(frame.optimizer.cumulative_cash, frame.optimizer.net_cash_flow)
  /\ InSeq("cumulative_cash", DataCols(data)) =>
       /\ NetOf([j \in 1..Len(data) |-> data[j].net_cash_flow], data)
       /\ RunningSums([i \in 1..Len(data) |-> data[i].cumulative_cash],
                      [j \in 1..Len(data) |-> data[j].net_cash_flow])

\* the engine has derived the columns on records add_features has already
\* extended, of two rows or more and a second net flow other than 0
CumulativeDerivedReached ==
  /\ "cumulative_cash" \in frame.engine.derived
  /\ InSeq("cumulative_cash", DataCols(data))
  /\ Len(data) >= 2
  /\ frame.engine.net_cash_flow[2] # 0
  /\ frame.engine.cumulative_cash[2] # frame.engine.net_cash_flow[2]

\* 60 consecutive daily records of cash_in 1000 and cash_out 800
IsFlat(rows) ==
  /\ Len(rows) = 60
  /\ \A i \in 1..Len(rows) :
       /\ rows[i].cash_in = 1000
       /\ rows[i].cash_out = 800
       /\ ToDatetime(rows[i].date) = ToDatetime(rows[1].date) + i - 1

\* C10: on the flat series of 60 days of cash_in 1000 and cash_out 800 every
\* derived net_cash_flow is 200, the volatility is zero, var_95 = var_99, and
\* the simple projection has trend 0 and at every step net_cash_flow 200,
\* confidence_lower 160 and confidence_upper 240.
FlatSeriesRoundTrip ==
  IsFlat(data) =>
    /\ \A i \in 1..Len(frame.engine.net_cash_flow) : frame.engine.net_cash_flow[i] = 200
    /\ \A i \in 1..Len(frame.optimizer.net_cash_flow) :
         frame.optimizer.net_cash_flow[i] = 200
    /\ (ProjectionReturned /\ Projection.method = "simple") =>
         /\ Projection.metrics.trend = Zero
         /\ SurdIsZero(Projection.metrics.volatility)
         /\ \A i \in 1..Len(Projection.projections) :
              /\ Projection.projections[i].net_cash_flow = R(200)
              /\ Projection.projections[i].confidence_lower = R(160)
              /\ Projection.projections[i].confidence_upper = R(240)
    /\ (OptimizationReturned /\ Optimization.strategy = "basic") =>
         SurdIsZero(Optimization.cash_flow_volatility)
    /\ RiskMetricsReturned =>
         /\ Optimization.risk_metrics.var_95 = R(200)
         /\ Optimization.risk_metrics.var_99 = Optimization.risk_metrics.var_95

\* the simple projection of the flat series, of two steps or more
FlatSeriesProjected ==
  /\ IsFlat(data)
  /\ ProjectionReturned
  /\ Projection.method = "simple"
  /\ Len(frame.engine.net_cash_flow) = 60
  /\ Len(Projection.projections) >= 2

\* the weights of an allocation are each in [0, 1] and sum to 1
IsDistribution(allocation) ==
  /\ DOMAIN allocation = {InvestmentNames[k] : k \in 1..Len(InvestmentNames)}
  /\ \A name \in DOMAIN allocation :
       Leq(Zero, allocation[name]) /\ Leq(allocation[name], R(1))
  /\ SumRRange([k \in 1..Len(InvestmentNames) |-> allocation[InvestmentNames[k]]],
               1, Len(InvestmentNames)) = R(1)

\* C11: for each of the risk levels conservative, moderate and aggressive the
\* allocation weights over cash_reserve, money_market, short_term_bonds and
\* equity_funds are each in [0, 1] and sum to 1, in the table of
\* _optimize_portfolio_allocation and in every returned comprehensive result.
AllocationWeightsSumToOne ==
  /\ \A k \in 1..Len(valid_risk_levels) :
       IsDistribution(OptimizePortfolioAllocation(<<>>, valid_risk_levels[k]).allocation)
  /\ StressTestReturned => IsDistribution(Optimization.portfolio_optimization.allocation)

\* a comprehensive result for the conservative level, whose equity_funds weight
\* is 0
ConservativeAllocationReached ==
  /\ StressTestReturned
  /\ Optimization.risk_level = "conservative"
  /\ Optimization.portfolio_optimization.allocation.equity_funds = Zero
  /\ Optimization.portfolio_optimization.allocation.cash_reserve = Rat(6, 10)

\* the sum of the probabilities of the scenarios called names
ProbabilitySum(scenarios, names) ==
  SumRRange([k \in 1..Len(names) |-> scenarios[names[k]].probability], 1, Len(names))

BaselineNames == <<"optimistic", "base", "pessimistic">>

StressNames == <<"market_crash", "liquidity_crisis", "operational_disruption">>

\* C12: in every returned comprehensive result the baseline scenarios
\* optimistic, base and pessimistic have the probabilities 0.25, 0.5 and 0.25,
\* which sum to 1, while the stress scenarios market_crash, liquidity_crisis
\* and operational_disruption have the probabilities 0.05, 0.10 and 0.08,
\* which do not sum to 1.
BaselineProbabilitiesSumToOne ==
  StressTestReturned =>
    /\ DOMAIN Optimization.scenarios = {BaselineNames[k] : k \in 1..Len(BaselineNames)}
    /\ Optimization.scenarios.optimistic.probability = Rat(25, 100)
    /\ Optimization.scenarios.base.probability = Rat(5, 10)
    /\ Optimization.scenarios.pessimistic.probability = Rat(25, 100)
    /\ ProbabilitySum(Optimization.scenarios, BaselineNames) = R(1)
    /\ DOMAIN Optimization.stress_testing.scenarios = {StressNames[k] : k \in 1..Len(StressNames)}
    /\ Optimization.stress_testing.scenarios.market_crash.probability = Rat(5, 100)
    /\ Optimization.stress_testing.scenarios.liquidity_crisis.probability = Rat(10, 100)
    /\ Optimization.stress_testing.scenarios.operational_disruption.probability = Rat(8, 100)
    /\ ProbabilitySum(Optimization.stress_testing.scenarios, StressNames) # R(1)

\* a comprehensive result whose stress probabilities sum to 0.23
StressProbabilitiesReached ==
  /\ StressTestReturned
  /\ ProbabilitySum(Optimization.stress_testing.scenarios, StressNames) = Rat(23, 100)
  /\ ProbabilitySum(Optimization.scenarios, BaselineNames) = R(1)

(***************************************************************************)
(* A session: one process that keeps one AdvancedProjectionEngine and      *)
(* calls generate_liquidity_projection on it again and again, each time    *)
(* with the series of that call, while numpy's global generator advances.  *)
(***************************************************************************)
MaxCalls == 2
MaxDraws == 2

\* what one output of the generator selects: the first or the last residual
RawValues == {0, 1}

\* the outputs of the generator once generate_sample_data has seeded it with 42
\* and drawn its own samples
SeededStream == List([i \in 1..MaxDraws |-> i % 2])

SessionSeries ==
  {s \in PatternSeries : Len(s) = 60 \/ (Len(s) = 8 /\ s[8].cash_out = 5)}

SessionMethods == {"simple", "advanced", "ensemble", "ml"}

\* whether the call reaches np.random.choice in _advanced_projection
ReachesChoice(rows, method, horizon, lapack) ==
  /\ Len(rows) > 0
  /\ method \in {"advanced", "ensemble"}
  /\ PolyfitCall(NetCashFlow(SortValues(Frame(rows))), lapack).raise = ""
  /\ method = "ensemble" => SimpleProjection(SortValues(Frame(rows)), horizon, lapack).raise = ""

\* np.random.choice(residual, 1)[0] for the generator output u
DrawOf(df, lapack, u) ==
  DecomposeTimeseries(NetCashFlow(df), PolyfitCall(NetCashFlow(df), lapack).value)
    .residual[IF u = 0 THEN 1 ELSE Len(df)]

\* the draws of one call, taken from the generator g
GeneratorDraws(rows, method, horizon, lapack, g) ==
  IF ReachesChoice(rows, method, horizon, lapack)
  THEN List([i \in 1..horizon |->
               DrawOf(SortValues(Frame(rows)), lapack, g.stream[g.pos + i])])
  ELSE NoDraws(horizon)

\* the generator after the call
GeneratorAfter(rows, method, horizon, lapack, g) ==
  IF ReachesChoice(rows, method, horizon, lapack)
  THEN [g EXCEPT !.pos = g.pos + horizon] ELSE g

CallNumber(r) == IF r.call = "none" THEN 0 ELSE r.number

\* the process starts with a generator seeded from the operating system
SessionInit ==
  /\ data = <<>>
  /\ frame = Frames(NoFrame, NoFrame)
  /\ result = Idle
  /\ self = NewEngine
  /\ rng \in {[stream |-> st, pos |-> 0] : st \in [1..MaxDraws -> RawValues]}
  /\ previous = Idle
  /\ requests = <<>>
  /\ engines = <<>>

\* engine.generate_liquidity_projection(series, method) on the session's engine
SessionProjection ==
  /\ CallNumber(result) < MaxCalls
  /\ \E series \in SessionSeries, method \in SessionMethods,
        lapack \in LapackOutcomes(8) :
       \E preds \in PredChoices(SortValues(Frame(series)), DataCols(series), 1) :
         /\ rng.pos + 1 <= MaxDraws
         /\ data' = series
         /\ result' =
              [call |-> "generate_liquidity_projection", number |-> CallNumber(result) + 1,
               method |-> method, horizon |-> 1, lapack |-> lapack,
               draws |-> GeneratorDraws(series, method, 1, lapack, rng),
               outcome |->
                 GenerateLiquidityProjectionOn(
                   self, series, method, 1, lapack,
                   GeneratorDraws(series, method, 1, lapack, rng), preds)]
         /\ self' = EngineAfter(self, series, method, 1, lapack,
                                GeneratorDraws(series, method, 1, lapack, rng))
         /\ rng' = GeneratorAfter(series, method, 1, lapack, rng)
         /\ frame' = Frames(EngineFrame(series, method), NoFrame)
  /\ previous' = result @@ [series |-> data]
  /\ UNCHANGED <<requests, engines>>

\* generate_sample_data(): np.random.seed(42), then its own draws
SessionSampleData ==
  /\ rng' = [stream |-> SeededStream, pos |-> 0]
  /\ UNCHANGED <<data, frame, result, self, previous, requests, engines>>

SessionNext == SessionProjection \/ SessionSampleData

SessionSpec == SessionInit /\ [][SessionNext]_vars

\* the rows the estimators of the call in result were to be fitted on
TrainingRows ==
  List([k \in 1..Len(PrepareMLFeatures(SortValues(Frame(data)))) |->
          SortValues(Frame(data))[PrepareMLFeatures(SortValues(Frame(data)))[k]]])

SessionTrained ==
  /\ result.call = "generate_liquidity_projection"
  /\ ReachesTraining(data, result.method, result.horizon, result.lapack, result.draws)

\* C13: on one engine, every call of generate_liquidity_projection that gets
\* as far as the estimators leaves all three of them, and the scaler, fitted
\* on the rows of the series of that call, and its outcome is the outcome of
\* the same call, with the same draws, on a newly constructed engine.
ModelsNeverCarriedOver ==
  result.call = "generate_liquidity_projection" =>
    /\ \A preds \in PredChoices(SortValues(Frame(data)), DataCols(data), result.horizon) :
         result.outcome =
           GenerateLiquidityProjection(data, result.method, result.horizon, result.lapack,
                                       result.draws, preds)
    /\ SessionTrained =>
         /\ DOMAIN self.models = {ModelNames[k] : k \in 1..Len(ModelNames)}
         /\ \A m \in DOMAIN self.models : self.models[m].trained_on = TrainingRows
         /\ DOMAIN self.scalers = {"linear_regression"}
         /\ self.scalers.linear_regression.fitted_on = TrainingRows

\* a second call that trains, after a call that trained on another series
RetrainedOnSecondSeries ==
  /\ SessionTrained
  /\ result.number = 2
  /\ previous.call = "generate_liquidity_projection"
  /\ previous.series # data
  /\ ReachesTraining(previous.series, previous.method, previous.horizon, previous.lapack,
                     previous.draws)
  /\ self.models.random_forest.trained_on = TrainingRows

(***************************************************************************)
(* The server: requests are served by threads that interleave between the  *)
(* steps of their handlers. A handler constructs its engine and optimizer, *)
(* which live in engines; an instance records which requests wrote a field *)
(* of it. Only the 'simple' and 'ml' methods and the 'basic' strategy are   *)
(* followed, so that no request draws from the random generator.           *)
(***************************************************************************)
MaxRequests == 2

ServerSeries == {s \in PatternSeries : Len(s) = 60}

Endpoints == {"liquidity_projection", "optimize", "analyze"}

ServerMethods == {"simple", "ml"}

ServerRiskLevels == {"conservative", "moderate"}

Pending == [raise |-> "", msg |-> <<>>, value |-> [pending |-> TRUE]]

\* an instance every request of the process would share
SharedInstance(instances, class) ==
  IF \E i \in 1..Len(instances) : instances[i].class = class
  THEN CHOOSE i \in 1..Len(instances) : instances[i].class = class
  ELSE Len(instances) + 1

\* engine = AdvancedProjectionEngine(...), optimizer = CashFlowOptimizer(...):
\* a local of the handler, bound to an instance no other request has
OwnInstance(instances, class) == Len(instances) + 1

\* the instances once request r has run the constructor of class; fields are
\* self.models and self.scalers, or self.risk_level and self.risk_params
Construct(instances, class, fields, r) ==
  IF OwnInstance(instances, class) > Len(instances)
  THEN Append(instances, [class |-> class, fields |-> fields, written_by |-> {r}])
  ELSE [instances EXCEPT ![OwnInstance(instances, class)].written_by = @ \cup {r}]

NewRequest(endpoint, series, method, risk_level) ==
  [endpoint |-> endpoint, series |-> series, method |-> method,
   strategy |-> "basic", risk_level |-> risk_level,
   pc |-> IF endpoint = "optimize" THEN "construct_optimizer" ELSE "construct_engine",
   engine |-> 0, optimizer |-> 0, read_from |-> {},
   projection |-> Pending, optimization |-> Pending,
   response |-> Response(0, [pending |-> TRUE])]

ServerInit ==
  /\ data = <<>>
  /\ frame = Frames(NoFrame, NoFrame)
  /\ result = Idle
  /\ self = NewEngine
  /\ rng = NoRng
  /\ previous = Idle
  /\ requests = <<>>
  /\ engines = <<>>

\* a request arrives; its parameters are read and validated. A key the body
\* lacks takes its default; an analysis asks for 'ml' at the conservative level
Receive ==
  /\ Len(requests) < MaxRequests
  /\ \E endpoint \in Endpoints, series \in ServerSeries :
       \E method \in (IF endpoint = "optimize" THEN {"ensemble"}
                      ELSE IF endpoint = "analyze" THEN {"ml"} ELSE ServerMethods),
          risk_level \in (IF endpoint = "optimize" THEN ServerRiskLevels
                          ELSE IF endpoint = "analyze" THEN {"conservative"}
                          ELSE {"moderate"}) :
         requests' = Append(requests, NewRequest(endpoint, series, method, risk_level))
  /\ UNCHANGED <<data, frame, result, self, rng, previous, engines>>

\* engine = AdvancedProjectionEngine(forecast_horizon=horizon)
ConstructEngine(r) ==
  /\ requests[r].pc = "construct_engine"
  /\ engines' = Construct(engines, "AdvancedProjectionEngine", NewEngine, r)
  /\ requests' = [requests EXCEPT
                    ![r].engine = OwnInstance(engines, "AdvancedProjectionEngine"),
                    ![r].pc = "train"]
  /\ UNCHANGED <<data, frame, result, self, rng, previous>>

\* engine.generate_liquidity_projection up to the return of _train_ml_models,
\* or the whole call when it does not train
Train(r) ==
  /\ requests[r].pc = "train"
  /\ IF ReachesTraining(requests[r].series, requests[r].method, 1, "ok", NoDraws(1))
     THEN /\ engines' =
               [engines EXCEPT
                  ![requests[r].engine].fields =
                     EngineAfter(@, requests[r].series, requests[r].method, 1, "ok",
                                 NoDraws(1)),
                  ![requests[r].engine].written_by = @ \cup {r}]
          /\ requests' = [requests EXCEPT ![r].pc = "predict"]
     ELSE /\ engines' = engines
          /\ requests' =
               [requests EXCEPT
                  ![r].projection =
                     GenerateLiquidityProjectionOn(
                       engines[requests[r].engine].fields, requests[r].series,
                       requests[r].method, 1, "ok", NoDraws(1), NoPreds),
                  ![r].pc =
                     IF requests[r].endpoint = "analyze"
                        /\ GenerateLiquidityProjectionOn(
                             engines[requests[r].engine].fields, requests[r].series,
                             requests[r].method, 1, "ok", NoDraws(1), NoPreds).raise = ""
                     THEN "construct_optimizer" ELSE "respond"]
  /\ UNCHANGED <<data, frame, result, self, rng, previous>>

\* the prediction loop of _ml_projection, over self.models and self.scalers
Predict(r) ==
  /\ requests[r].pc = "predict"
  /\ \E preds \in PredChoices(SortValues(Frame(requests[r].series)),
                             DataCols(requests[r].series), 1) :
       requests' =
         [requests EXCEPT
            ![r].projection =
               MLPredict(engines[requests[r].engine].fields,
                         SortValues(Frame(requests[r].series)),
                         DataCols(requests[r].series), 1, "ok", preds),
            ![r].read_from =
               {engines[requests[r].engine].fields.models[m].trained_on :
                  m \in DOMAIN engines[requests[r].engine].fields.models}
               \cup {engines[requests[r].engine].fields.scalers[m].fitted_on :
                       m \in DOMAIN engines[requests[r].engine].fields.scalers},
            ![r].pc = IF requests[r].endpoint = "analyze"
                         /\ MLPredict(engines[requests[r].engine].fields,
                                      SortValues(Frame(requests[r].series)),
                                      DataCols(requests[r].series), 1, "ok", preds).raise = ""
                      THEN "construct_optimizer" ELSE "respond"]
  /\ UNCHANGED <<data, frame, result, self, rng, previous, engines>>

\* optimizer = CashFlowOptimizer(risk_level=risk_level)
ConstructOptimizer(r) ==
  /\ requests[r].pc = "construct_optimizer"
  /\ engines' = Construct(engines, "CashFlowOptimizer",
                          [risk_level |-> requests[r].risk_level,
                           risk_params |-> GetRiskParameters(requests[r].risk_level)], r)
  /\ requests' = [requests EXCEPT
                    ![r].optimizer = OwnInstance(engines, "CashFlowOptimizer"),
                    ![r].pc = "optimize"]
  /\ UNCHANGED <<data, frame, result, self, rng, previous>>

\* optimizer.optimize_cash_flow(data['data'], strategy), which reads
\* self.risk_level and self.risk_params
Optimize(r) ==
  /\ requests[r].pc = "optimize"
  /\ requests' =
       [requests EXCEPT
          ![r].optimization =
             OptimizeCashFlow(requests[r].series,
                              engines[requests[r].optimizer].fields.risk_level,
                              requests[r].strategy, "ok", "none"),
          ![r].pc = "respond"]
  /\ UNCHANGED <<data, frame, result, self, rng, previous, engines>>

\* return jsonify(...), or the except branch
Respond(r) ==
  /\ requests[r].pc = "respond"
  /\ requests' =
       [requests EXCEPT
          ![r].response =
             IF requests[r].endpoint = "liquidity_projection"
             THEN ProjectionResponse(requests[r].projection)
             ELSE IF requests[r].endpoint = "optimize"
             THEN OptimizationResponse(requests[r].optimization)
             ELSE IF requests[r].projection.raise # ""
             THEN Response(500, Failure("Failed to perform analysis"))
             ELSE AnalysisResponse(requests[r].projection, requests[r].optimization,
                                   [total_records |-> Len(requests[r].series),
                                    projection_horizon |-> 1,
                                    risk_level |-> requests[r].risk_level,
                                    strategy |-> requests[r].strategy,
                                    method |-> requests[r].method]),
          ![r].pc = "done"]
  /\ UNCHANGED <<data, frame, result, self, rng, previous, engines>>

ServerNext ==
  \/ Receive
  \/ \E r \in 1..Len(requests) : ConstructEngine(r)
  \/ \E r \in 1..Len(requests) : Train(r)
  \/ \E r \in 1..Len(requests) : Predict(r)
  \/ \E r \in 1..Len(requests) : ConstructOptimizer(r)
  \/ \E r \in 1..Len(requests) : Optimize(r)
  \/ \E r \in 1..Len(requests) : Respond(r)

ServerSpec == ServerInit /\ [][ServerNext]_vars

\* the rows the estimators of a call on series are fitted on
TrainingRowsOf(series) ==
  List([k \in 1..Len(PrepareMLFeatures(SortValues(Frame(series)))) |->
          SortValues(Frame(series))[PrepareMLFeatures(SortValues(Frame(series)))[k]]])

\* C14: under every interleaving of the requests, the engine and the optimizer
\* of a request are instances no other request holds, every instance has had
\* its fields written by one request only, a request has predicted only with
\* estimators and a scaler fitted on its own series, and its optimizer holds
\* its own risk level.
RequestsShareNoInstance ==
  /\ \A i \in 1..Len(engines) : Cardinality(engines[i].written_by) <= 1
  /\ \A r \in 1..Len(requests) :
       /\ requests[r].engine # 0 =>
            /\ engines[requests[r].engine].written_by = {r}
            /\ \A q \in 1..Len(requests) : q # r => requests[q].engine # requests[r].engine
       /\ requests[r].optimizer # 0 =>
            /\ engines[requests[r].optimizer].written_by = {r}
            /\ engines[requests[r].optimizer].fields.risk_level = requests[r].risk_level
            /\ \A q \in 1..Len(requests) :
                 q # r => requests[q].optimizer # requests[r].optimizer
       /\ requests[r].read_from \subseteq {TrainingRowsOf(requests[r].series)}

\* two overlapping requests with different series that have both predicted: the
\* one that arrived later is answered while the earlier one is not yet
InterleavedPredictions ==
  /\ Len(requests) = 2
  /\ requests[1].series # requests[2].series
  /\ requests[1].read_from = {TrainingRowsOf(requests[1].series)}
  /\ requests[2].read_from = {TrainingRowsOf(requests[2].series)}
  /\ requests[1].pc = "respond"
  /\ requests[2].pc = "done"

\* two consecutive calls of the session with the 'advanced' method, the same
\* series and the same horizon; no call takes a seed, so both are given the
\* same one
SameAdvancedCallTwice ==
  /\ previous.call = "generate_liquidity_projection"
  /\ result.call = "generate_liquidity_projection"
  /\ previous.method = "advanced"
  /\ result.method = "advanced"
  /\ previous.series = data
  /\ previous.horizon = result.horizon

\* C15: two calls of the 'advanced' method with the same series, the same
\* horizon and the same seed return identical projections, whatever was called
\* before or between them.
AdvancedIsReproducible ==
  SameAdvancedCallTwice => previous.outcome = result.outcome

(***************************************************************************)
(* Uploads whose records come in any order and may repeat a date.          *)
(***************************************************************************)
UploadDays == 3

UploadPairs == {<<0, 5>>, <<10, 0>>}

\* every sequence of at most MaxShort records over UploadDays days
UploadSeries ==
  UNION {{List([i \in 1..n |-> Record(StartDay + f[i][1], f[i][2][1], f[i][2][2])]) :
            f \in [1..n -> (0..(UploadDays - 1)) \X UploadPairs]} : n \in 0..MaxShort}

UploadInit ==
  /\ data \in UploadSeries
  /\ frame = Frames(NoFrame, NoFrame)
  /\ result = Idle
  /\ self = NewEngine
  /\ rng = NoRng
  /\ previous = Idle
  /\ requests = <<>>
  /\ engines = <<>>

UploadSpec == UploadInit /\ [][Next]_vars

\* C16: after clean_data the dates of the records are unique and strictly
\* increasing, also when two or more records of the input have the same date.
CleanedDatesStrictlyIncrease ==
  Cleaned => \A i \in 1..(Len(data) - 1) :
               ToDatetime(data[i].date) < ToDatetime(data[i + 1].date)

\* C17: method 'ml' on a series with at least 30 usable rows builds every
\* future feature row with exactly the feature columns of the training matrix,
\* in the same order, so that the prediction succeeds and the result is tagged
\* 'ml'.
FutureRowsMatchTraining ==
  (MLRequested /\ UsableRows >= 30) =>
    /\ FutureFeatureNames = FeatureCols(MLFrameCols(DataCols(data)))
    /\ ProjectionReturned
    /\ Projection.method = "ml"

\* the last call computed a maximum drawdown of the series in data: the helper
\* of app.py, the insights handler, or the advanced tier of the optimizer
DrawdownReturned ==
  \/ result.call = "_calculate_max_drawdown" /\ result.outcome.raise = ""
  \/ result.call = "insights" /\ "risk_indicators" \in DOMAIN result.insights.value
  \/ RiskMetricsReturned

ReportedDrawdown ==
  IF result.call = "_calculate_max_drawdown" THEN result.outcome.value
  ELSE IF result.call = "insights" THEN result.insights.value.risk_indicators.max_drawdown
  ELSE Optimization.risk_metrics.max_drawdown

\* the points of the cumulative column whose running maximum is not zero
NonZeroRunningMax(cum) ==
  SelectSeq([i \in 1..Len(cum) |-> i], LAMBDA i : RunningMax(cum)[i] # 0)

\* the drawdowns at the points idx
DrawdownsAt(cum, idx) ==
  List([k \in 1..Len(idx) |->
          Div(R(cum[idx[k]] - RunningMax(cum)[idx[k]]), R(RunningMax(cum)[idx[k]]))])

\* C18: a reported maximum drawdown is the least of (cumulative - running_max)
\* / running_max over the points whose running maximum is not zero; when there
\* is such a point it is neither infinite nor nan.
DrawdownSkipsZeroRunningMax ==
  (DrawdownReturned /\ Len(NonZeroRunningMax(CumSum(NetCashFlow(data)))) > 0) =>
    /\ IsFinite(ReportedDrawdown)
    /\ ReportedDrawdown =
         MinSkipNa(DrawdownsAt(CumSum(NetCashFlow(data)),
                               NonZeroRunningMax(CumSum(NetCashFlow(data)))))

\* the flows of the three sub-projections of a returned ensemble
SubFlows(name) ==
  List([i \in 1..Len(Projection.projections) |-> Projection.projections[i][name]])

\* np.mean of the np.var of the three sub-projections
AvgIndividualVariance ==
  MeanR(<<VarR(SubFlows("simple_projection")), VarR(SubFlows("advanced_projection")),
          VarR(SubFlows("ml_projection"))>>)

\* add_features reports 0 where the 7-day rolling mean is 0
VolatilityZeroOnZeroMean ==
  Cleaned =>
    \A i \in 1..Len(data) :
      IsZero(data[i].rolling_7d_avg) => SurdIsZero(data[i].cash_flow_volatility)

\* the insights report 0 where the mean net flow is 0
InsightsRatioZeroOnZeroMean ==
  (result.call = "insights" /\ "risk_indicators" \in DOMAIN result.insights.value
     /\ IsZero(Mean(NetCashFlow(data)))) =>
    SurdIsZero(result.insights.value.risk_indicators.cash_flow_volatility_ratio)

\* the ensemble reports 0 where the mean variance of its sub-projections is 0
VarianceReductionZeroOnZeroVariance ==
  (ProjectionReturned /\ Projection.method = "ensemble" /\ IsZero(AvgIndividualVariance)) =>
    IsZero(Projection.ensemble_metrics.variance_reduction)

\* C19: every ratio whose denominator is zero is reported as 0: the
\* cash_flow_volatility of add_features on every row whose rolling mean is 0,
\* also when the rolling standard deviation is positive; the volatility ratio
\* of the insights when the mean net flow is 0; the variance_reduction of the
\* ensemble when the mean variance of the sub-projections is 0.
ZeroDenominatorsReportZero ==
  /\ VolatilityZeroOnZeroMean
  /\ InsightsRatioZeroOnZeroMean
  /\ VarianceReductionZeroOnZeroVariance

\* the last cumulative balance of the series of the last call
LastHistoricalCumulative == R(SumInt(NetCashFlow(data)))

\* the net flows of the steps of a projection
FlowsOf(projection) ==
  List([i \in 1..Len(projection.projections) |-> projection.projections[i].net_cash_flow])

\* C20: in a returned ensemble projection the cumulative_cash of step i is the
\* last historical cumulative balance plus the sum of the blended net_cash_flow
\* of the steps up to i.
EnsembleCumulativeIsRecomputed ==
  (ProjectionReturned /\ result.method = "ensemble") =>
    \A i \in 1..Len(Projection.projections) :
      Projection.projections[i].cumulative_cash =
        Add(LastHistoricalCumulative, SumRRange(FlowsOf(Projection), 1, i))

\* an ensemble of two steps on a series whose balance is not 0, whose second
\* cumulative value is that of neither the simple nor the advanced projection
EnsembleCumulativeDiffers ==
  /\ ProjectionReturned
  /\ result.method = "ensemble"
  /\ Len(Projection.projections) = 2
  /\ ~IsZero(LastHistoricalCumulative)
  /\ IsFinite(Projection.projections[2].cumulative_cash)
  /\ Projection.projections[2].cumulative_cash #
       GenerateLiquidityProjection(data, "simple", result.horizon, result.lapack,
                                   result.draws, NoPreds).value.projections[2].cumulative_cash
  /\ Projection.projections[2].cumulative_cash #
       GenerateLiquidityProjection(data, "advanced", result.horizon, result.lapack,
                                   result.draws, NoPreds).value.projections[2].cumulative_cash

\* C21: the variance_reduction of a returned ensemble is 1 - Var(B) / mean of
\* the variances of the simple, advanced and ml flows, where B is the
\* net_cash_flow series the ensemble reports, blended with 0.2, 0.3 and 0.5.
VarianceReductionOfReportedBlend ==
  (ProjectionReturned /\ Projection.method = "ensemble") =>
    Projection.ensemble_metrics.variance_reduction =
      Sub(R(1), Div(VarR(FlowsOf(Projection)), AvgIndividualVariance))

\* the last call was load_data with validate = True and preprocess = True on a
\* CSV file with the three required columns and at least one record
WellFormedCsvLoaded ==
  /\ result.call = "load_data"
  /\ result.file.extension = "csv"
  /\ Len(ValidateRequiredColumns(result.file.columns)) = 0
  /\ Len(result.file.rows) > 0
  /\ result.validate
  /\ result.preprocess

\* C22: load_data parses the dates before any step that needs calendar dates,
\* so a well-formed CSV input with validate = True and preprocess = True ends
\* with success = True and records that carry net_cash_flow, cumulative_cash
\* and the anomaly flag.
WellFormedCsvLoads ==
  WellFormedCsvLoaded =>
    /\ result.outcome.success
    /\ \A i \in 1..Len(result.outcome.data) :
         {"net_cash_flow", "cumulative_cash", "is_anomaly"} \subseteq DOMAIN result.outcome.data[i]

(***************************************************************************)
(* Files whose records come in any order, with missing and negative        *)
(* amounts.                                                                 *)
(***************************************************************************)
MaxRaw == 2
RawDays == 2

\* the cell of a record: none for <<>>, the amount v for <<v>>
CellOf(col, cell) == [c \in (IF cell = <<>> THEN {} ELSE {col}) |-> cell[1]]

RawRecord(d, ci, co) == [date |-> Strftime(d)] @@ CellOf("cash_in", ci) @@ CellOf("cash_out", co)

\* (cash_in, cash_out) cells of the raw records
RawPairs == {<< <<-5>>, <<10>> >>, << <<>>, <<5>> >>, << <<10>>, <<>> >>, << <<0>>, <<-5>> >>}

\* every sequence of at most MaxRaw raw records over RawDays days
RawSeries ==
  UNION {{List([i \in 1..n |-> RawRecord(StartDay + f[i][1], f[i][2][1], f[i][2][2])]) :
            f \in [1..n -> (0..(RawDays - 1)) \X RawPairs]} : n \in 0..MaxRaw}

RawInit ==
  /\ data \in RawSeries
  /\ frame = Frames(NoFrame, NoFrame)
  /\ result = Idle
  /\ self = NewEngine
  /\ rng = NoRng
  /\ previous = Idle
  /\ requests = <<>>
  /\ engines = <<>>

RawNext ==
  \/ Preprocess
  \/ LoadDataCall

RawSpec == RawInit /\ [][RawNext]_vars

\* load_data returned the records it prepared
Prepared ==
  /\ result.call = "load_data"
  /\ result.preprocess
  /\ result.outcome.success

\* an amount with 0 in the place of a missing or negative one
Clamped(r, col) == IF col \notin DOMAIN r THEN 0 ELSE IF r[col] < 0 THEN 0 ELSE r[col]

\* the rows of the input, or of the output, with a date and two clamped amounts
RowsWith(rows, d, ci, co) ==
  {i \in 1..Len(rows) :
     rows[i].date = d /\ Clamped(rows[i], "cash_in") = ci /\ Clamped(rows[i], "cash_out") = co}

\* C23: after clean_data and add_features every record has cash_in >= 0 and
\* cash_out >= 0, the records are those of the input with missing and negative
\* amounts replaced by 0, none dropped, and net_cash_flow is the difference of
\* the replaced amounts.
PreparationClampsAmounts ==
  Prepared =>
    /\ Len(result.outcome.data) = Len(result.file.rows)
    /\ \A i \in 1..Len(result.outcome.data) :
         /\ result.outcome.data[i].cash_in >= 0
         /\ result.outcome.data[i].cash_out >= 0
         /\ result.outcome.data[i].net_cash_flow =
              result.outcome.data[i].cash_in - result.outcome.data[i].cash_out
         /\ Cardinality(RowsWith(result.outcome.data, result.outcome.data[i].date,
                                 result.outcome.data[i].cash_in,
                                 result.outcome.data[i].cash_out))
            = Cardinality(RowsWith(result.file.rows, result.outcome.data[i].date,
                                   result.outcome.data[i].cash_in,
                                   result.outcome.data[i].cash_out))

\* records prepared from a file with a missing and a negative amount, the
\* later date first
RawAmountsPrepared ==
  /\ Prepared
  /\ Len(result.file.rows) = 2
  /\ IsNull(result.file.rows[1], "cash_in")
  /\ ~IsNull(result.file.rows[2], "cash_in")
  /\ result.file.rows[2].cash_in < 0
  /\ ToDatetime(result.file.rows[2].date) < ToDatetime(result.file.rows[1].date)
  /\ result.outcome.data[1].net_cash_flow = -10
  /\ result.outcome.data[2].net_cash_flow = -5

\* a recommendation list holds a message
HasAdvice(recommendations, text) ==
  \E k \in 1..Len(recommendations) : recommendations[k].text = text

\* the texts of the last three recommendations
LastThree(recommendations) ==
  [k \in 1..3 |-> recommendations[Len(recommendations) - 3 + k].text]

\* the rules of the advanced tier
AdvancedRules(o) ==
  /\ HasAdvice(o.recommendations, "High drawdown detected - consider increasing reserve buffer")
       <=> Lt(o.risk_metrics.max_drawdown, Rat(-2, 10))
  /\ HasAdvice(o.recommendations,
               "High volatility detected - implement cash flow smoothing strategies")
       <=> SurdLt(SurdOf(GetRiskParameters(o.risk_level).volatility_tolerance),
                  o.risk_metrics.avg_volatility)
  /\ HasAdvice(o.recommendations, "Consider investing $ in short-term instruments")
       <=> Lt(Zero, o.investment_analysis.avg_surplus)
  /\ Len(o.recommendations) >= 3
  /\ LastThree(o.recommendations) =
       <<"Implement daily cash flow monitoring",
         "Set up automated alerts for cash flow anomalies",
         "Consider diversifying cash flow sources">>

\* the rules of the comprehensive tier
ComprehensiveRules(o) ==
  /\ HasAdvice(o.recommendations,
               "High prediction accuracy - consider automated cash flow forecasting")
       <=> o.prediction_model.accuracy.r2 = "high"
  /\ HasAdvice(o.recommendations,
               "Low prediction accuracy - improve data quality and feature engineering")
       <=> ~HasAdvice(o.recommendations,
                      "High prediction accuracy - consider automated cash flow forecasting")
  /\ HasAdvice(o.recommendations, "Maintain reserve of $ for extreme scenarios")
  /\ HasAdvice(o.recommendations, "Prepare for negative cash flow scenarios")
       <=> Lt(o.scenarios.pessimistic.expected_cash_flow, Zero)

\* C24: the recommendations follow fixed threshold rules. Advanced tier: the
\* high-drawdown message iff max_drawdown < -0.2, the high-volatility message
\* iff avg_volatility exceeds the volatility tolerance of the risk level, the
\* invest message iff avg_surplus > 0, and the same three general messages at
\* the end. Comprehensive tier: exactly one accuracy message, the automation
\* one iff R2 > 0.7, always the reserve message, and the negative-scenario
\* message iff the pessimistic expected flow is < 0.
RecommendationsFollowThresholds ==
  OptimizationReturned =>
    /\ Optimization.strategy = "advanced" => AdvancedRules(Optimization)
    /\ Optimization.strategy = "comprehensive" => ComprehensiveRules(Optimization)

\* an advanced optimization of five recommendations, the drawdown message
\* among them
DrawdownAdvised ==
  /\ OptimizationReturned
  /\ Optimization.strategy = "advanced"
  /\ Len(Optimization.recommendations) = 5
  /\ HasAdvice(Optimization.recommendations,
               "High drawdown detected - consider increasing reserve buffer")
  /\ Lt(Optimization.risk_metrics.max_drawdown, Rat(-2, 10))

\* the cumulative balances of a projection continue from a balance: the first
\* adds the first flow to it, each later one adds its flow to the one before
Continues(projection, balance) ==
  \A i \in 1..Len(projection.projections) :
    projection.projections[i].cumulative_cash =
      Add(IF i = 1 THEN balance ELSE projection.projections[i - 1].cumulative_cash,
          projection.projections[i].net_cash_flow)

\* the 'ml' projection as _ensemble_projection computes it, on the frame its
\* simple and advanced projections have extended
MLInEnsemble ==
  MLProjection(SortValues(Frame(data)), AdvancedCols(SimpleCols(DataCols(data))),
               result.horizon, result.lapack, NoPreds)

\* a projection has the cumulative balances of a returned one
SameBalances(projection, returned) ==
  /\ returned.raise = ""
  /\ \A i \in 1..Len(projection.projections) :
       projection.projections[i].cumulative_cash =
         returned.value.projections[i].cumulative_cash

SurdLeq(s, t) == SurdFinite(s) /\ SurdFinite(t) /\ ~SurdLt(t, s)

\* lower <= flow <= upper, the bounds being floats or flow -+ 1.96 deviations
Within(lower, flow, upper) ==
  IF "v" \in DOMAIN lower
  THEN SurdLeq(lower, SurdOf(flow)) /\ SurdLeq(SurdOf(flow), upper)
  ELSE Leq(lower, flow) /\ Leq(flow, upper)

\* the band of every step of a returned projection holds its flow
ProjectionBandsHoldFlows ==
  ProjectionReturned =>
    \A i \in 1..Len(Projection.projections) :
      Within(Projection.projections[i].confidence_lower,
             Projection.projections[i].net_cash_flow,
             Projection.projections[i].confidence_upper)

\* the band of every day of the forecast of an advanced optimization holds its
\* value
ForecastBandsHoldValues ==
  (OptimizationReturned /\ Optimization.strategy = "advanced") =>
    \A i \in 1..Len(Optimization.forecast.forecast_values) :
      Within(Optimization.forecast.confidence_interval.lower[i],
             Optimization.forecast.forecast_values[i],
             Optimization.forecast.confidence_interval.upper[i])

\* C26: in every projection step of every method, and in every day of the
\* optimizer's forecast, confidence_lower <= net_cash_flow <= confidence_upper,
\* also where the projected flow is negative.
BandsHoldFlows ==
  /\ ProjectionBandsHoldFlows
  /\ ForecastBandsHoldValues

\* the orders a record list is supplied in: every order of a short list, the
\* reverse of a longer one
Orders(n) ==
  IF n <= MaxShort THEN Permutations(1..n) ELSE {[i \in 1..n |-> n + 1 - i]}

Reordered(rows, order) == List([i \in 1..Len(rows) |-> rows[order[i]]])

\* no two records of the series have the same date
DistinctDates == DistinctValues([i \in 1..Len(data) |-> data[i].date]) = Len(data)

\* the projection of the last call is the projection of the records in any
\* other order
ProjectionIgnoresOrder ==
  (result.call = "generate_liquidity_projection" /\ DistinctDates) =>
    \A order \in Orders(Len(data)) :
      GenerateLiquidityProjection(Reordered(data, order), result.method, result.horizon,
                                  result.lapack, result.draws, NoPreds) = result.outcome

\* the basic or advanced optimization of the last call is that of the records
\* in any other order
OptimizationIgnoresOrder ==
  (result.call = "optimize_cash_flow" /\ result.strategy \in {"basic", "advanced"}
     /\ DistinctDates) =>
    \A order \in Orders(Len(data)) :
      OptimizeCashFlow(Reordered(data, order), result.risk_level, result.strategy,
                       result.lapack, "low") = result.outcome

\* C27: for records with pairwise distinct dates the result of a projection
\* and of an optimization (its risk metrics, max_drawdown and avg_volatility
\* included, and its investment analysis) is the same for every order in which
\* the records are supplied.
ResultsIgnoreRecordOrder ==
  /\ ProjectionIgnoresOrder
  /\ OptimizationIgnoresOrder

\* the portfolio of a risk level
PortfolioOf(risk_level) == OptimizePortfolioAllocation(<<>>, risk_level)

\* return and risk increase strictly over three portfolios, and no return is
\* above 0.05
ReturnAndRiskIncrease(conservative, moderate, aggressive) ==
  /\ Lt(conservative.expected_return, moderate.expected_return)
  /\ Lt(moderate.expected_return, aggressive.expected_return)
  /\ Lt(conservative.expected_risk, moderate.expected_risk)
  /\ Lt(moderate.expected_risk, aggressive.expected_risk)
  /\ Leq(conservative.expected_return, Rat(5, 100))
  /\ Leq(moderate.expected_return, Rat(5, 100))
  /\ Leq(aggressive.expected_return, Rat(5, 100))

\* C29: the expected return and the expected risk of the portfolio both
\* strictly increase from conservative to moderate to aggressive, the expected
\* return of each of the three is at most 0.05, and no returned comprehensive
\* result carries the 'High return potential' recommendation.
ReturnNeverHigh ==
  /\ ReturnAndRiskIncrease(PortfolioOf("conservative"), PortfolioOf("moderate"),
                           PortfolioOf("aggressive"))
  /\ StressTestReturned =>
       /\ Leq(Optimization.portfolio_optimization.expected_return, Rat(5, 100))
       /\ ~HasAdvice(Optimization.recommendations, "High return potential: expected return")

\* a comprehensive result for the aggressive level, with the largest expected
\* return, 0.043, and three recommendations at most
AggressiveReturnReached ==
  /\ StressTestReturned
  /\ Optimization.risk_level = "aggressive"
  /\ Optimization.portfolio_optimization.expected_return = Rat(43, 1000)
  /\ Optimization.portfolio_optimization.expected_risk = Rat(66, 1000)
  /\ Len(Optimization.recommendations) <= 3

\* the smallest net flow of the series of the last call
SmallestNetFlow ==
  CHOOSE m \in {NetCashFlow(data)[i] : i \in 1..Len(data)} :
    \A i \in 1..Len(data) : m <= NetCashFlow(data)[i]

\* the reserve of the basic strategy at a risk level, for the series of the
\* last call
BasicReserve(risk_level) == BasicOptimization(data, risk_level).value.minimum_reserve

\* C30: for strategy 'basic' the minimum_reserve is |min net flow| x (1 +
\* liquidity_buffer of the risk level) when the smallest net flow is negative
\* and 0 otherwise; it is >= 0, the safety_buffer is at most the
\* minimum_reserve, and for the same series the reserve of conservative is at
\* least that of moderate, which is at least that of aggressive.
BasicReserveFollowsBuffer ==
  (OptimizationReturned /\ Optimization.strategy = "basic") =>
    /\ Optimization.minimum_reserve =
         IF SmallestNetFlow < 0
         THEN Mul(R(-SmallestNetFlow),
                  Add(R(1), GetRiskParameters(Optimization.risk_level).liquidity_buffer))
         ELSE Zero
    /\ Leq(Zero, Optimization.minimum_reserve)
    /\ Leq(Optimization.safety_buffer, Optimization.minimum_reserve)
    /\ Leq(BasicReserve("moderate"), BasicReserve("conservative"))
    /\ Leq(BasicReserve("aggressive"), BasicReserve("moderate"))

\* a basic optimization at the conservative level of a series whose smallest
\* net flow is -5: the reserve is 5.75, above that of the aggressive level
ConservativeReserveReached ==
  /\ OptimizationReturned
  /\ Optimization.strategy = "basic"
  /\ Optimization.risk_level = "conservative"
  /\ SmallestNetFlow = -5
  /\ Optimization.minimum_reserve = Rat(575, 100)
  /\ Lt(BasicReserve("aggressive"), Optimization.minimum_reserve)

\* the latest date of the series of the last call, as a day number
LatestHistoricalDay ==
  CHOOSE d \in {ToDatetime(data[i].date) : i \in 1..Len(data)} :
    \A i \in 1..Len(data) : ToDatetime(data[i].date) <= d

\* the steps of a projection are h steps dated the h days after a day
DatedAfter(projection, day, h) ==
  /\ Len(projection.projections) = h
  /\ \A i \in 1..h : ToDatetime(projection.projections[i].date) = day + i
  /\ \A i \in 1..(h - 1) :
       ToDatetime(projection.projections[i].date)
         < ToDatetime(projection.projections[i + 1].date)

\* a sub-projection of the ensemble of the last call
SubProjection(method) ==
  IF method = "ml" THEN MLInEnsemble
  ELSE GenerateLiquidityProjection(data, method, result.horizon, result.lapack, result.draws,
                                   NoPreds)

\* a sub-projection returned h steps dated the h days after a day, the dates
\* of a projection
SameDates(projection, sub, day, h) ==
  /\ sub.raise = ""
  /\ DatedAfter(sub.value, day, h)
  /\ \A i \in 1..h : sub.value.projections[i].date = projection.projections[i].date

\* C28: every returned projection, of any method and any horizon h >= 1, has
\* exactly h steps, dated the h consecutive calendar days that follow the
\* latest historical date, in strictly increasing order; in a returned
\* ensemble the simple, advanced and ml sub-projections have the length and
\* the dates of the blended projection.
ProjectionDatesFollowHistory ==
  ProjectionReturned =>
    /\ DatedAfter(Projection, LatestHistoricalDay, result.horizon)
    /\ Projection.method = "ensemble" =>
         \A method \in {"simple", "advanced", "ml"} :
           SameDates(Projection, SubProjection(method), LatestHistoricalDay, result.horizon)

\* an ensemble of two steps on a series that ends on the last day of April:
\* the steps are dated the first and the second of May
EnsembleAcrossMonthEnd ==
  /\ ProjectionReturned
  /\ Projection.method = "ensemble"
  /\ result.horizon = 2
  /\ Strftime(LatestHistoricalDay) = <<EpochYear, 4, 30>>
  /\ Projection.projections[1].date = <<EpochYear, 5, 1>>
  /\ Projection.projections[2].date = <<EpochYear, 5, 2>>
====
